---- MODULE Spec2Model ----
(***************************************************************************)
(* A model of chromaspec: the extraction pipeline and its error handling,  *)
(* batch processing, the WCAG contrast engine with the accessible-text     *)
(* search of the palette generator, and the colour classifier.             *)
(*                                                                         *)
(* Numbers.  The program computes in binary floating point; the model      *)
(* computes in integers.  A contrast ratio is held in thousandths, a       *)
(* luminance in 1/200000, an HSL hue in tenths of a degree and an HSL      *)
(* saturation or lightness in tenths of a percent (rgb_to_hsl rounds its   *)
(* results to one decimal).  A HEX colour string is a sequence of          *)
(* character codes: '#' and the values of the hexadecimal digits.          *)
(***************************************************************************)
EXTENDS Integers, Sequences, FiniteSets, TLC

VARIABLES
    \* process_batch (cli.py)
    input_files,      \* the list of input files, each a file descriptor
    generate_pdfs,    \* argument of process_batch
    quiet,            \* argument of process_batch
    results,          \* the local list `results` of process_batch
    raised,           \* history: for each file handled so far, whether its processing raised
    bpc,              \* "idle" | "loop" | "returned" | "failed"
    \* extract_colors (extractors/__init__.py), one call
    input_path,       \* the file descriptor extract_colors is called with
    alarm_at,         \* where the SIGALRM of timeout(30) is delivered ("never": not within 30 s)
    outcome,          \* what the call did: a Return or Raise record, or NoOutcome
    \* _find_accessible_text (generators/palette.py), one call
    background,       \* argument: the background HEX colour
    target_rating,    \* argument
    max_iterations,   \* argument
    tpc,              \* "idle" | "fixed" | "darker" | "lighter" | "fallback" | "done" | "raised"
    ti,               \* index into the black/white list, then the loop variable i
    tried,            \* history: the candidates examined so far, in order
    found,            \* the returned (text_color, contrast_ratio, wcag_rating), or NoTriple
    \* get_wcag_rating (analyzers/accessibility.py), one call
    contrast_ratio,   \* argument, in thousandths
    wcag_result,      \* the returned tag, or "none"
    rpc,              \* "idle" | "call" | "done"
    \* categorize_colors (analyzers/classification.py), one call
    hex_colors_with_freq,  \* argument: the map in insertion order, <<colour, freq>> pairs
    categories,       \* the local dictionary of the three lists
    cpos,             \* position of the for loop in the map
    cpc,              \* "idle" | "loop" | "sort" | "done"
    \* one call each, held as a record of its arguments, locals and position
    compat,           \* check_dark_mode_compatibility (analyzers/dark_mode.py)
    finder,           \* get_compatible_text_color (analyzers/dark_mode.py)
    suggest,          \* suggest_dark_mode_adjustments (analyzers/dark_mode.py)
    palette,          \* a palette constructor (generators/palette.py)
    parsed,           \* hex_to_rgb (converters/rgb_converters.py)
    contrast,         \* get_contrast_ratio (analyzers/accessibility.py)
    harmony,          \* get_complementary_color (analyzers/harmonies.py)
    roundtrip,        \* rgb_to_hsl, then hsl_to_rgb (converters/hsl_converters.py)
    shares,           \* the frequency map of one extraction (extractors)
    analysis,         \* analyze_contrast_with_backgrounds (analyzers/accessibility.py)
    cache,            \* the memo cache of rgb_to_hsl (converters/hsl_converters.py)
    xxe,              \* extract_colors_from_svg_safe on an SVG with an external entity
    pfile,            \* process_file (cli.py)
    brighten,         \* _adjust_brightness (generators/palette.py)
    svgkeys           \* the keys of an SVG extraction, then categorize_colors

batchVars == <<input_files, generate_pdfs, quiet, results, raised, bpc>>
extractVars == <<input_path, alarm_at, outcome>>
textVars == <<background, target_rating, max_iterations, tpc, ti, tried, found>>
ratingVars == <<contrast_ratio, wcag_result, rpc>>
catVars == <<hex_colors_with_freq, categories, cpos, cpc>>
unitVars == <<harmony, roundtrip, shares, analysis, cache, xxe, pfile, brighten, svgkeys>>
callVars == <<compat, finder, suggest, palette, parsed, contrast, unitVars>>
vars == <<batchVars, extractVars, textVars, ratingVars, catVars, callVars>>

----------------------------------------------------------------------------
(* Bounds of the model *)

MaxFiles == 2
\* max_iterations is drawn from 0..MaxIterations and the default
MaxIterations == 3
\* contrast ratios are drawn from 0..MaxRatio thousandths (21:1 is black on white)
MaxRatio == 21000
\* categorize_colors gets maps of at most MaxColors colours with frequencies 1..MaxFreq
MaxColors == 3
MaxFreq == 2
\* suggest_dark_mode_adjustments gets max_iterations from 0..MaxSuggestIterations and the default
MaxSuggestIterations == 3

----------------------------------------------------------------------------
(* utils/constants.py *)

SVG_EXTENSIONS == {".svg"}
IMAGE_EXTENSIONS == {".png", ".jpg", ".jpeg", ".gif", ".bmp", ".tiff", ".webp"}
SUPPORTED_EXTENSIONS == SVG_EXTENSIONS \cup IMAGE_EXTENSIONS
MAX_COLOR_MATCHES == 10000
\* ImageProcessing.MAX_SVG_SIZE, 10 * 1024 * 1024 bytes, in whole megabytes
MAX_SVG_SIZE_MB == 10
\* the max_size_mb that extract_colors passes to validate_file_size
MAX_FILE_SIZE_MB == 50

----------------------------------------------------------------------------
(* Files.  A file descriptor says what the file system, the XML parser,    *)
(* the regular expression and the image decoder answer for one path.       *)

NoFile ==
    [exists |-> FALSE, is_file |-> FALSE, traversal |-> FALSE, suffix |-> ".svg",
     size_mb |-> 0, svg_mb |-> 0, parse |-> "ok", attr_matches |-> 0,
     regex_matches |-> 0, decode |-> "ok", pixels |-> 0]

Plain == [NoFile EXCEPT !.exists = TRUE, !.is_file = TRUE, !.size_mb = 1, !.svg_mb = 1]

\* numbers of colour occurrences a scan can find: none, some, the ceiling, above it
MatchCounts == {0, 3, MAX_COLOR_MATCHES, MAX_COLOR_MATCHES + 1}

\* what ET.parse does: returns a tree, raises ET.ParseError, or raises something
\* else (defusedxml's EntitiesForbidden is a ValueError; an OSError of the read)
ParseOutcomes == {"ok", "ParseError", "EntitiesForbidden"}

SvgFiles ==
    { [Plain EXCEPT !.parse = p, !.attr_matches = a, !.regex_matches = r] :
        p \in ParseOutcomes, a \in MatchCounts, r \in MatchCounts }
    \cup { [Plain EXCEPT !.svg_mb = MAX_SVG_SIZE_MB + 1, !.size_mb = MAX_SVG_SIZE_MB + 1] }

ImageFiles ==
    { [Plain EXCEPT !.suffix = ".png", !.decode = d, !.pixels = n] :
        d \in {"ok", "UnidentifiedImageError"}, n \in {0, 4} }

RejectedFiles ==
    { NoFile,
      [NoFile EXCEPT !.exists = TRUE],                         \* a directory
      [Plain EXCEPT !.suffix = ".txt"],
      [Plain EXCEPT !.size_mb = MAX_FILE_SIZE_MB + 1],
      [Plain EXCEPT !.suffix = ".png", !.size_mb = MAX_FILE_SIZE_MB + 1],
      [Plain EXCEPT !.traversal = TRUE, !.attr_matches = 3, !.regex_matches = 3] }

\* only a parsed tree has attributes to count
Canonical(f) == f.parse = "ok" \/ f.attr_matches = 0

FileKinds == { f \in SvgFiles : Canonical(f) } \cup ImageFiles \cup RejectedFiles

----------------------------------------------------------------------------
(* What a call does: it returns a colour map or raises.  `via` is the      *)
(* strategy whose map is returned and `total` the number of occurrences    *)
(* the map was built from.  Three fields are history: `steps` lists the    *)
(* strategies that were run, in order; `caught` lists the exception kinds  *)
(* that a handler inside the extractors caught, in order; `alarm` says     *)
(* whether the SIGALRM handler of timeout() ran during the call.           *)

NoOutcome == [kind |-> "none"]

Return(via, total, steps, caught, alarm) ==
    [kind |-> "return", exc |-> "none", via |-> via, total |-> total,
     steps |-> steps, caught |-> caught, alarm |-> alarm]

Raise(exc, steps, caught, alarm) ==
    [kind |-> "raise", exc |-> exc, via |-> "none", total |-> 0,
     steps |-> steps, caught |-> caught, alarm |-> alarm]

\* The statements inside `with timeout(30)` during which the handler can run and
\* raise TimeoutError: read_text and validate_svg_size (svg_extractor.py 98-99),
\* ET.parse (105), the attribute loop and its count check (110-127), the regex scan
\* called from inside the try block (132), the regex scan of the handler (156),
\* the image block (image_extractor.py 57-89).
AlarmPoints == {"read", "parse", "count", "regex_in_try", "regex_fallback", "image"}

Has(seq, x) == \E k \in 1..Len(seq) : seq[k] = x

----------------------------------------------------------------------------
(* utils/validators.py, utils/security.py: TRUE means the check passes,    *)
(* FALSE that it raises                                                    *)

validate_file_exists(f) ==
    IF ~f.exists THEN "FileNotFoundError"
    ELSE IF ~f.is_file THEN "ValidationError"
    ELSE "ok"

validate_file_format(f) == f.suffix \in SUPPORTED_EXTENSIONS

validate_file_size(f, max_size_mb) == ~(f.size_mb > max_size_mb)

validate_svg_size(f) == ~(f.svg_mb > MAX_SVG_SIZE_MB)

validate_color_matches(color_count) == ~(color_count > MAX_COLOR_MATCHES)

validate_safe_path(f) == ~f.traversal

----------------------------------------------------------------------------
(* extractors/svg_extractor.py *)

\* `fire`: the alarm is delivered during this scan
extract_hex_colors_from_svg(f, steps, caught, fire, alarm) ==
    LET ran == Append(steps, "regex") IN
    IF fire THEN Raise("TimeoutError", ran, caught, TRUE)
    ELSE IF ~validate_svg_size(f) THEN Raise("ValidationError", ran, caught, alarm)
    ELSE IF ~validate_color_matches(f.regex_matches)
         THEN Raise("ValidationError", ran, caught, alarm)
    ELSE Return("regex", f.regex_matches, ran, caught, alarm)

\* the body of the try statement, lines 101-145
SvgTryBlock(f, at) ==
    IF at = "parse" THEN Raise("TimeoutError", <<"xml">>, <<>>, TRUE)
    ELSE IF f.parse # "ok" THEN Raise(f.parse, <<"xml">>, <<>>, FALSE)
    ELSE IF at = "count" THEN Raise("TimeoutError", <<"xml">>, <<>>, TRUE)
    ELSE IF ~validate_color_matches(f.attr_matches)
         THEN Raise("ValidationError", <<"xml">>, <<>>, FALSE)
    ELSE IF f.attr_matches = 0
         THEN extract_hex_colors_from_svg(f, <<"xml">>, <<>>, at = "regex_in_try", FALSE)
    ELSE Return("xml", f.attr_matches, <<"xml">>, <<>>, FALSE)

\* a variant that retries after every exception, an XML parse error included
SvgHandlers_retry_parse_error(f, at, body) ==
    IF body.kind = "raise"
    THEN extract_hex_colors_from_svg(f, body.steps, Append(body.caught, body.exc),
                                     at = "regex_fallback" /\ ~body.alarm, body.alarm)
    ELSE body

\* the two handlers of the try statement, lines 147-156
SvgHandlers(f, at, body) ==
    IF body.kind = "raise" /\ body.exc = "ParseError"
    THEN Raise("ValidationError", body.steps, Append(body.caught, body.exc), body.alarm)
    ELSE IF body.kind = "raise"
    THEN extract_hex_colors_from_svg(f, body.steps, Append(body.caught, body.exc),
                                     at = "regex_fallback" /\ ~body.alarm, body.alarm)
    ELSE body

extract_colors_from_svg_safe(f, at) ==
    IF at = "read" THEN Raise("TimeoutError", <<>>, <<>>, TRUE)
    ELSE IF ~validate_svg_size(f) THEN Raise("ValidationError", <<>>, <<>>, FALSE)
    ELSE SvgHandlers(f, at, SvgTryBlock(f, at))

----------------------------------------------------------------------------
(* extractors/image_extractor.py *)

\* the body of the try statement, lines 56-89
ImageTryBlock(f, at) ==
    IF at = "image" THEN Raise("TimeoutError", <<"image">>, <<>>, TRUE)
    ELSE IF f.decode # "ok" THEN Raise(f.decode, <<"image">>, <<>>, FALSE)
    ELSE Return("image", f.pixels, <<"image">>, <<>>, FALSE)

\* Pillow is installed (PIL_AVAILABLE); the handler is lines 91-93
extract_colors_from_image(f, at) ==
    LET body == ImageTryBlock(f, at) IN
    IF body.kind = "raise"
    THEN Raise("ImageProcessingError", body.steps, Append(body.caught, body.exc), body.alarm)
    ELSE body

----------------------------------------------------------------------------
(* extractors/__init__.py *)

\* lines 62-77, the statements under `with timeout(30)`
TimeoutBlock(f, at) ==
    IF f.suffix \in SVG_EXTENSIONS THEN extract_colors_from_svg_safe(f, at)
    ELSE IF f.suffix \in IMAGE_EXTENSIONS THEN extract_colors_from_image(f, at)
    ELSE Raise("UnsupportedFormatError", <<>>, <<>>, FALSE)

\* `except TimeoutError` re-raises a TimeoutError with another message
extract_colors(f, at) ==
    IF validate_file_exists(f) # "ok" THEN Raise(validate_file_exists(f), <<>>, <<>>, FALSE)
    ELSE IF ~validate_file_format(f) THEN Raise("ValidationError", <<>>, <<>>, FALSE)
    ELSE IF ~validate_file_size(f, MAX_FILE_SIZE_MB) THEN Raise("ValidationError", <<>>, <<>>, FALSE)
    ELSE TimeoutBlock(f, at)

----------------------------------------------------------------------------
(* cli.py *)

\* categorize_colors of an extracted map and the sum of the bucket lengths, lines
\* 77-79 and 155-157: every occurrence counted is taken to be a colour of its own
\* with a dominant channel, so the total is the number of occurrences
total_colors(ex) == ex.total

\* process_file(input_path, pdf_path, quiet) as process_batch calls it: the output
\* path is input_path.with_name(..."_colors.pdf"), which has the directory parts of
\* the input path, and its suffix is .pdf, so generate_color_pdf is called;
\* pdf_ok says whether it succeeds
process_file(f, q, at, pdf_ok) ==
    IF ~validate_safe_path(f) THEN Raise("ValidationError", <<>>, <<>>, FALSE)
    ELSE LET ex == extract_colors(f, at) IN
         IF ex.kind = "raise" THEN ex
         ELSE IF total_colors(ex) = 0 /\ ~q
              THEN Raise("ValidationError", ex.steps, ex.caught, ex.alarm)
         ELSE IF ~pdf_ok THEN Raise("PDFGenerationError", ex.steps, ex.caught, ex.alarm)
         ELSE ex

\* the records process_batch appends, lines 159-176 and 192-197
DataRecord(i, ex) == [file |-> i, error |-> FALSE, total_colors |-> total_colors(ex)]
ErrorRecord(i) == [file |-> i, error |-> TRUE, total_colors |-> 0]

\* what the body of the try statement of process_batch did for file i, lines 147-184
BatchTry(f, gp, q, at, pdf_ok) ==
    IF gp THEN process_file(f, q, at, pdf_ok) ELSE extract_colors(f, at)

\* `results` after the iteration for file i, lines 143-198
BatchIteration(res, i, gp, did) ==
    IF did.kind = "raise" THEN Append(res, ErrorRecord(i))
    ELSE IF gp THEN res
    ELSE Append(res, DataRecord(i, did))

----------------------------------------------------------------------------
(* process_batch as a state machine: one step per file, then the report *)

FileLists == UNION { [1..n -> FileKinds] : n \in 0..MaxFiles }

ExtractIdle == input_path = NoFile /\ alarm_at = "never" /\ outcome = NoOutcome

NotCalled == [pc |-> "idle"]

UnitsIdle ==
    /\ harmony = NotCalled /\ roundtrip = NotCalled /\ shares = NotCalled
    /\ analysis = NotCalled /\ cache = NotCalled /\ xxe = NotCalled
    /\ pfile = NotCalled /\ brighten = NotCalled /\ svgkeys = NotCalled

CallsIdle ==
    /\ compat = NotCalled /\ finder = NotCalled /\ suggest = NotCalled
    /\ palette = NotCalled /\ parsed = NotCalled
    /\ contrast = NotCalled
    /\ UnitsIdle

RatingIdle == contrast_ratio = 0 /\ wcag_result = "none" /\ rpc = "idle"

EmptyCategories == [red |-> <<>>, green |-> <<>>, blue |-> <<>>]

CatIdle ==
    /\ hex_colors_with_freq = <<>> /\ categories = EmptyCategories
    /\ cpos = 0 /\ cpc = "idle"

NoTriple == [color |-> <<>>, ratio |-> 0, rating |-> "none"]

TextIdle ==
    /\ background = <<>> /\ target_rating = "AA" /\ max_iterations = 0
    /\ tpc = "idle" /\ ti = 0 /\ tried = <<>> /\ found = NoTriple

BatchIdle ==
    /\ input_files = <<>> /\ generate_pdfs = FALSE /\ quiet = FALSE
    /\ results = <<>> /\ raised = <<>> /\ bpc = "idle"

InitBatch ==
    /\ input_files \in FileLists
    /\ generate_pdfs \in BOOLEAN
    /\ quiet \in BOOLEAN
    /\ results = <<>>
    /\ raised = <<>>
    /\ bpc = "loop"
    /\ ExtractIdle
    /\ TextIdle
    /\ RatingIdle
    /\ CatIdle
    /\ CallsIdle

\* one iteration of `for idx, input_path in enumerate(input_files, 1)`
ProcessNext ==
    /\ bpc = "loop"
    /\ Len(raised) < Len(input_files)
    /\ \E at \in AlarmPoints \cup {"never"}, pdf_ok \in BOOLEAN :
         LET i == Len(raised) + 1
             did == BatchTry(input_files[i], generate_pdfs, quiet, at, pdf_ok)
         IN /\ results' = BatchIteration(results, i, generate_pdfs, did)
            /\ raised' = Append(raised, did.kind = "raise")
    /\ UNCHANGED <<input_files, generate_pdfs, quiet, bpc, extractVars, textVars, ratingVars, catVars, callVars>>

\* _write_batch_report and the return, lines 200-213
WriteReport ==
    /\ bpc = "loop"
    /\ Len(raised) = Len(input_files)
    /\ bpc' = "returned"
    /\ UNCHANGED <<input_files, generate_pdfs, quiet, results, raised, extractVars, textVars, ratingVars, catVars, callVars>>

\* open() or json.dump of _write_batch_report raises: process_batch raises
ReportFails ==
    /\ bpc = "loop"
    /\ Len(raised) = Len(input_files)
    /\ bpc' = "failed"
    /\ UNCHANGED <<input_files, generate_pdfs, quiet, results, raised, extractVars, textVars, ratingVars, catVars, callVars>>

NextBatch == ProcessNext \/ WriteReport \/ ReportFails

SpecBatch == InitBatch /\ [][NextBatch]_vars

----------------------------------------------------------------------------
(* one call of extract_colors *)

InitExtract ==
    /\ input_path \in FileKinds
    /\ alarm_at = "never"
    /\ outcome = NoOutcome
    /\ BatchIdle
    /\ TextIdle
    /\ RatingIdle
    /\ CatIdle
    /\ CallsIdle

Extract ==
    /\ outcome = NoOutcome
    /\ \E at \in AlarmPoints \cup {"never"} :
         /\ alarm_at' = at
         /\ outcome' = extract_colors(input_path, at)
    /\ UNCHANGED <<input_path, batchVars, textVars, ratingVars, catVars, callVars>>

NextExtract == Extract

SpecExtract == InitExtract /\ [][NextExtract]_vars

----------------------------------------------------------------------------
(* Claims about process_batch and extract_colors *)

\* C1 (as claimed): when process_batch returns, `results` holds exactly one record
\* per input file, in list order: an error record for each file whose processing
\* raised and a data record for every other file, whatever generate_pdfs and quiet
\* are.
C1_OneRecordPerFile ==
    bpc = "returned" =>
        /\ Len(raised) = Len(input_files)
        /\ Len(results) = Len(input_files)
        /\ \A i \in 1..Len(results) :
              /\ results[i].file = i
              /\ results[i].error = raised[i]

\* the SVG try block of extract_colors_from_svg_safe was entered
EnteredSvgTry == outcome.kind # "none" /\ Has(outcome.steps, "xml")

\* ET.parse ran to its end and raised ET.ParseError
XmlParseError == alarm_at # "parse" /\ input_path.parse = "ParseError"

\* ET.parse ran to its end and raised something that is no ET.ParseError
XmlParseRefused == alarm_at # "parse" /\ input_path.parse = "EntitiesForbidden"

\* the parse and the count ran to their end and counted no colour
XmlZeroColours ==
    /\ alarm_at \notin {"parse", "count"}
    /\ input_path.parse = "ok"
    /\ input_path.attr_matches = 0

\* the count ran to its end and found more than MAX_COLOR_MATCHES occurrences
XmlTooManyMatches ==
    /\ alarm_at \notin {"parse", "count"}
    /\ input_path.parse = "ok"
    /\ input_path.attr_matches > MAX_COLOR_MATCHES

\* the alarm was delivered while the try block ran
AlarmInSvgTry ==
    \/ alarm_at \in {"parse"}
    \/ alarm_at = "count" /\ input_path.parse = "ok"
    \/ alarm_at = "regex_in_try" /\ XmlZeroColours

\* C5 (as claimed): the regex scan is run in exactly two situations, a failed XML
\* parse and a parse that yields zero colours, and in both the caller gets the
\* outcome of the regex scan.  Stated for the calls in which no alarm is delivered.
C5_FallbackOnParseFailureOrZero ==
    (EnteredSvgTry /\ alarm_at = "never") =>
        /\ Has(outcome.steps, "regex")
             <=> (XmlParseError \/ XmlParseRefused \/ XmlZeroColours)
        /\ (XmlParseError \/ XmlParseRefused \/ XmlZeroColours) =>
             outcome.steps[Len(outcome.steps)] = "regex"

\* C5 (amended): the regex scan is run when the parse yields zero colours and when
\* an exception other than ET.ParseError is raised in the try block (a refusal of
\* the parser, the match-count failure, the alarm); the caller then gets the
\* outcome of the regex scan.  An ET.ParseError is not retried: it surfaces as a
\* ValidationError and no regex scan is run.
C5_FallbackExceptOnParseError ==
    EnteredSvgTry =>
        /\ Has(outcome.steps, "regex")
             <=> (XmlZeroColours \/ XmlParseRefused \/ XmlTooManyMatches \/ AlarmInSvgTry)
        /\ Has(outcome.steps, "regex") =>
             /\ outcome.steps[Len(outcome.steps)] = "regex"
             /\ outcome.kind = "return" =>
                  outcome.via = "regex" /\ outcome.total = input_path.regex_matches
             /\ outcome.kind = "raise" => outcome.exc \in {"ValidationError", "TimeoutError"}
        /\ XmlParseError =>
             /\ outcome.kind = "raise"
             /\ outcome.exc = "ValidationError"
             /\ outcome.steps = <<"xml">>

\* C5 witness: a malformed SVG was parsed to the end and the call is over
C5_Witness ==
    /\ EnteredSvgTry
    /\ XmlParseError
    /\ alarm_at = "never"
    /\ input_path.regex_matches = 3
    /\ outcome.kind = "raise"

\* C6 (as claimed): a validation error raised during the extraction propagates to
\* the caller of extract_colors, and a match count above the ceiling found while
\* counting XML attributes surfaces as a ValidationError without a regex scan
\* being run in its place.  Stated for the calls in which no alarm is delivered.
C6_ValidationErrorsPropagate ==
    (outcome.kind # "none" /\ alarm_at = "never") =>
        /\ Has(outcome.caught, "ValidationError") =>
              outcome.kind = "raise" /\ outcome.exc = "ValidationError"
        /\ (EnteredSvgTry /\ XmlTooManyMatches) =>
              /\ outcome.kind = "raise"
              /\ outcome.exc = "ValidationError"
              /\ ~Has(outcome.steps, "regex")

\* C7 (as claimed): when the alarm is delivered inside the timeout block,
\* extract_colors raises TimeoutError and returns no colour map.
C7_AlarmRaisesTimeout ==
    (outcome.kind # "none" /\ outcome.alarm) =>
        (outcome.kind = "raise" /\ outcome.exc = "TimeoutError")

----------------------------------------------------------------------------
(* converters/rgb_converters.py *)

(* A string is a sequence of character codes.  The codes 0..15 are the     *)
(* characters '0'..'9', 'A'..'F'; the lower-case letters 'a'..'f' and the   *)
(* other characters have the codes below.                                   *)

LOWER == 16        \* 'a'..'f' are LOWER + 10 .. LOWER + 15
HASH == 40         \* '#'
PLUS == 41         \* '+'
MINUS == 42        \* '-'
SPACE == 43        \* ' '
NEWLINE == 44      \* '\n'
LETTER_G == 45     \* 'G', a letter that is no hexadecimal digit
PERCENT == 46      \* '%'

UpperDigits == 0..15
LowerDigits == (LOWER + 10)..(LOWER + 15)
HexDigits == UpperDigits \cup LowerDigits
Whitespace == {SPACE, NEWLINE}
Chars == HexDigits \cup {HASH, PLUS, MINUS, LETTER_G} \cup Whitespace

\* the value of a hexadecimal digit of either case
DigitValue(c) == IF c \in LowerDigits THEN c - LOWER ELSE c

\* what a raising conversion yields in place of a triple
ValueError == <<"ValueError">>

\* hex_color.lstrip("#"): every leading '#' is removed
RECURSIVE lstrip_hash(_)
lstrip_hash(str) ==
    IF str # <<>> /\ Head(str) = HASH THEN lstrip_hash(Tail(str)) ELSE str

\* int(hex_color[0:2], 16) of two hexadecimal digits
HexPair(hi, lo) == 16 * hi + lo

\* int(two characters, 16): surrounding whitespace is dropped and one sign is
\* read before the digits; anything else raises ValueError
Int16(c1, c2) ==
    IF c1 \in HexDigits /\ c2 \in HexDigits THEN HexPair(DigitValue(c1), DigitValue(c2))
    ELSE IF c1 = PLUS /\ c2 \in HexDigits THEN DigitValue(c2)
    ELSE IF c1 = MINUS /\ c2 \in HexDigits THEN 0 - DigitValue(c2)
    ELSE IF c1 \in Whitespace /\ c2 \in HexDigits THEN DigitValue(c2)
    ELSE IF c1 \in HexDigits /\ c2 \in Whitespace THEN DigitValue(c1)
    ELSE "ValueError"

Int16Raises(c1, c2) ==
    ~ \/ (c1 \in HexDigits \cup {PLUS, MINUS} \cup Whitespace /\ c2 \in HexDigits)
      \/ (c1 \in HexDigits /\ c2 \in Whitespace)

hex_to_rgb(hex_color) ==
    LET stripped == lstrip_hash(hex_color)
        six == IF Len(stripped) = 3
               THEN <<stripped[1], stripped[1], stripped[2], stripped[2],
                      stripped[3], stripped[3]>>
               ELSE stripped
    IN IF Len(six) # 6 THEN ValueError
       ELSE IF \/ Int16Raises(six[1], six[2])
               \/ Int16Raises(six[3], six[4])
               \/ Int16Raises(six[5], six[6])
       THEN ValueError
       ELSE <<Int16(six[1], six[2]), Int16(six[3], six[4]), Int16(six[5], six[6])>>

\* f"#{r:02X}{g:02X}{b:02X}": two digits per channel, three for a channel above 255
FormatChannel(c) ==
    IF c > 255 THEN <<c \div 256, (c \div 16) % 16, c % 16>> ELSE <<c \div 16, c % 16>>

FormatHex(rgb) ==
    <<HASH>> \o FormatChannel(rgb[1]) \o FormatChannel(rgb[2]) \o FormatChannel(rgb[3])

\* adjust(c) of calculate_luminance for c = 0..255, in 1/200000, rounded:
\* c/255/12.92 when c/255 <= 0.03928 and ((c/255 + 0.055)/1.055) ** 2.4 otherwise
AdjustTab ==
    <<
            0,     61,    121,    182,    243,    304,    364,    425,
          486,    546,    607,    669,    735,    805,    878,    955,
         1036,   1121,   1210,   1302,   1399,   1500,   1605,   1714,
         1827,   1944,   2066,   2192,   2322,   2457,   2597,   2740,
         2889,   3042,   3199,   3361,   3528,   3700,   3876,   4058,
         4244,   4435,   4631,   4832,   5037,   5248,   5464,   5685,
         5911,   6143,   6379,   6621,   6868,   7120,   7378,   7641,
         7909,   8183,   8462,   8747,   9037,   9333,   9634,   9941,
        10254,  10572,  10896,  11226,  11561,  11902,  12249,  12602,
        12961,  13325,  13696,  14072,  14454,  14843,  15237,  15637,
        16044,  16457,  16875,  17300,  17731,  18168,  18612,  19061,
        19517,  19980,  20448,  20923,  21405,  21892,  22386,  22887,
        23394,  23908,  24428,  24954,  25488,  26027,  26574,  27127,
        27686,  28253,  28826,  29405,  29992,  30585,  31185,  31792,
        32406,  33026,  33654,  34288,  34929,  35578,  36233,  36895,
        37564,  38240,  38924,  39614,  40311,  41016,  41727,  42446,
        43172,  43905,  44646,  45393,  46148,  46910,  47680,  48456,
        49240,  50032,  50830,  51637,  52450,  53271,  54100,  54935,
        55779,  56630,  57488,  58354,  59228,  60109,  60997,  61894,
        62798,  63709,  64629,  65556,  66490,  67433,  68383,  69341,
        70307,  71280,  72261,  73251,  74248,  75252,  76265,  77286,
        78314,  79351,  80396,  81448,  82509,  83577,  84654,  85738,
        86831,  87931,  89040,  90157,  91282,  92415,  93557,  94706,
        95864,  97030,  98204,  99387, 100577, 101776, 102984, 104199,
       105423, 106655, 107896, 109145, 110402, 111668, 112942, 114225,
       115516, 116816, 118124, 119440, 120765, 122099, 123441, 124792,
       126151, 127519, 128896, 130281, 131675, 133077, 134489, 135908,
       137337, 138774, 140220, 141675, 143139, 144611, 146092, 147582,
       149081, 150588, 152105, 153630, 155164, 156708, 158260, 159821,
       161390, 162969, 164557, 166154, 167760, 169375, 170999, 172631,
       174273, 175924, 177585, 179254, 180932, 182620, 184316, 186022,
       187737, 189461, 191195, 192937, 194689, 196450, 198220, 200000
    >>

adjust(c) == AdjustTab[c + 1]

\* 0.2126 * adjust(r) + 0.7152 * adjust(g) + 0.0722 * adjust(b), in 1/200000
calculate_luminance(rgb) ==
    (2126 * adjust(rgb[1]) + 7152 * adjust(rgb[2]) + 722 * adjust(rgb[3])) \div 10000

----------------------------------------------------------------------------
(* converters/hsl_converters.py.  Hue is in tenths of a degree, saturation *)
(* and lightness in tenths of a percent.                                   *)

\* the element of a set of one element: Only({e : x \in {v}}) is e for x = v,
\* with v computed once
Only(S) == CHOOSE x \in S : TRUE

Max2(a, b) == IF a >= b THEN a ELSE b
Min2(a, b) == IF a <= b THEN a ELSE b

\* round(n / d) as Python rounds: to the nearest integer, a tie to the even one
RoundDiv(n, d) ==
    LET q == n \div d
        r == n % d
    IN IF 2 * r > d \/ (2 * r = d /\ q % 2 = 1) THEN q + 1 ELSE q

\* the conversion with hue, saturation and lightness rounded to whole units
rgb_to_hsl_whole_units(rgb) ==
    LET r == rgb[1]
        g == rgb[2]
        b == rgb[3]
        max_c == Max2(r, Max2(g, b))
        min_c == Min2(r, Min2(g, b))
        d == max_c - min_c
        s == IF max_c + min_c > 255
             THEN RoundDiv(d * 100, 510 - max_c - min_c)
             ELSE RoundDiv(d * 100, max_c + min_c)
        hd == IF max_c = r THEN (g - b) + (IF g < b THEN 6 * d ELSE 0)
              ELSE IF max_c = g THEN (b - r) + 2 * d
              ELSE (r - g) + 4 * d
    IN IF max_c = min_c THEN <<0, 0, 10 * RoundDiv((max_c + min_c) * 100, 510)>>
       ELSE <<10 * RoundDiv(hd * 60, d), 10 * s,
              10 * RoundDiv((max_c + min_c) * 100, 510)>>

rgb_to_hsl(rgb) ==
    LET r == rgb[1]
        g == rgb[2]
        b == rgb[3]
        max_c == Max2(r, Max2(g, b))
        min_c == Min2(r, Min2(g, b))
        lightness == RoundDiv((max_c + min_c) * 1000, 510)
        d == max_c - min_c
        s == IF max_c + min_c > 255
             THEN RoundDiv(d * 1000, 510 - max_c - min_c)
             ELSE RoundDiv(d * 1000, max_c + min_c)
        \* h * d, with h the hue in sixths of a turn
        hd == IF max_c = r THEN (g - b) + (IF g < b THEN 6 * d ELSE 0)
              ELSE IF max_c = g THEN (b - r) + 2 * d
              ELSE (r - g) + 4 * d
    IN IF max_c = min_c THEN <<0, 0, lightness>>
       ELSE <<RoundDiv(hd * 600, d), s, lightness>>

\* p, q in millionths; t in 1/3600 of a turn
hue_to_rgb(p, q, t0) ==
    LET t1 == IF t0 < 0 THEN t0 + 3600 ELSE t0
        t == IF t1 > 3600 THEN t1 - 3600 ELSE t1
    IN IF t < 600 THEN p + ((q - p) * t) \div 600
       ELSE IF t < 1800 THEN q
       ELSE IF t < 2400 THEN p + ((q - p) * (2400 - t)) \div 600
       ELSE p

hsl_to_rgb(h, s, lightness) ==
    LET q == IF lightness < 500
             THEN lightness * (1000 + s)
             ELSE (lightness + s) * 1000 - lightness * s
        p == 2000 * lightness - q
    IN IF s = 0
       THEN <<RoundDiv(lightness * 255, 1000), RoundDiv(lightness * 255, 1000),
              RoundDiv(lightness * 255, 1000)>>
       ELSE <<RoundDiv(hue_to_rgb(p, q, h + 1200) * 255, 1000000),
              RoundDiv(hue_to_rgb(p, q, h) * 255, 1000000),
              RoundDiv(hue_to_rgb(p, q, h - 1200) * 255, 1000000)>>

----------------------------------------------------------------------------
(* analyzers/accessibility.py, utils/constants.py (WCAGThresholds).        *)
(* A contrast ratio is in thousandths, rounded down.                       *)

WCAG_AAA == 7000
WCAG_AA == 4500
WCAG_AA_LARGE == 3000

\* the reversed quotient, (darker + 0.05) / (lighter + 0.05)
get_contrast_ratio_inverted(color1, color2) ==
    LET l1 == calculate_luminance(hex_to_rgb(color1))
        l2 == calculate_luminance(hex_to_rgb(color2))
    IN ((Min2(l1, l2) + 10000) * 1000) \div (Max2(l1, l2) + 10000)

\* the quotient of the luminances in the order of the arguments
get_contrast_ratio_ordered(color1, color2) ==
    LET l1 == calculate_luminance(hex_to_rgb(color1))
        l2 == calculate_luminance(hex_to_rgb(color2))
    IN ((l1 + 10000) * 1000) \div (l2 + 10000)

get_contrast_ratio(color1, color2) ==
    Only({ LET lighter == Max2(l1, l2)
               darker == Min2(l1, l2)
           IN ((lighter + 10000) * 1000) \div (darker + 10000)
           : l1 \in {calculate_luminance(hex_to_rgb(color1))},
             l2 \in {calculate_luminance(hex_to_rgb(color2))} })

\* strict comparisons in place of the inclusive ones
get_wcag_rating_strict(contrast_ratio_) ==
    IF contrast_ratio_ > WCAG_AAA THEN "AAA"
    ELSE IF contrast_ratio_ > WCAG_AA THEN "AA"
    ELSE IF contrast_ratio_ > WCAG_AA_LARGE THEN "AA Large"
    ELSE "Fail"

get_wcag_rating(contrast_ratio_) ==
    IF contrast_ratio_ >= WCAG_AAA THEN "AAA"
    ELSE IF contrast_ratio_ >= WCAG_AA THEN "AA"
    ELSE IF contrast_ratio_ >= WCAG_AA_LARGE THEN "AA Large"
    ELSE "Fail"

----------------------------------------------------------------------------
(* generators/palette.py *)

\* a variant whose lightness wraps around at the ends of the scale
_adjust_brightness_wrapping(hex_color, amount) ==
    LET hsl == rgb_to_hsl(hex_to_rgb(hex_color))
        new_l == (hsl[3] + 10 * amount) % 1001
    IN FormatHex(hsl_to_rgb(hsl[1], hsl[2], new_l))

\* amount in percentage points of lightness
_adjust_brightness(hex_color, amount) ==
    LET hsl == rgb_to_hsl(hex_to_rgb(hex_color))
        new_l == Max2(0, Min2(1000, hsl[3] + 10 * amount))
    IN FormatHex(hsl_to_rgb(hsl[1], hsl[2], new_l))

BLACK == <<HASH, 0, 0, 0, 0, 0, 0>>
WHITE == <<HASH, 15, 15, 15, 15, 15, 15>>

\* the default of the parameter max_iterations
DEFAULT_MAX_ITERATIONS == 20

Ratings == {"AAA", "AA", "AA Large", "Fail"}
TargetRatings == {"AA", "AAA", "AA Large"}

\* the list of the first loop, line 128, with white before black
FixedCandidates_white_first == <<WHITE, BLACK>>

\* the list of the first loop, line 128
FixedCandidates == <<BLACK, WHITE>>

\* acceptance of the target rating itself and of no other
Accepted_exact_only(wcag, target) == wcag = target

\* acceptance by rank: a rating at or above the target
Accepted_at_or_above(wcag, target) ==
    LET rank == [r \in Ratings |->
                    IF r = "AAA" THEN 3 ELSE IF r = "AA" THEN 2
                    ELSE IF r = "AA Large" THEN 1 ELSE 0]
    IN rank[wcag] >= rank[target]

\* the condition of the three if statements, lines 131-133, 142-144, 151-153
Accepted(wcag, target) ==
    wcag = target \/ (target = "AA" /\ wcag \in {"AA", "AAA", "AA Large"})

\* ratio and rating of a candidate against the background, e.g. lines 129-130
Examine(hex_color, bg) ==
    [color |-> hex_color,
     ratio |-> get_contrast_ratio(hex_color, bg),
     rating |-> get_wcag_rating(get_contrast_ratio(hex_color, bg))]

Tried(cand, target) ==
    [color |-> cand.color, ratio |-> cand.ratio, rating |-> cand.rating,
     accepted |-> Accepted(cand.rating, target)]

\* the fallback with the lower contrast of the two
FallbackTriple_lower_contrast(bg) ==
    LET white_ratio == get_contrast_ratio(WHITE, bg)
        black_ratio == get_contrast_ratio(BLACK, bg)
    IN IF white_ratio >= black_ratio
       THEN [color |-> BLACK, ratio |-> black_ratio, rating |-> get_wcag_rating(black_ratio)]
       ELSE [color |-> WHITE, ratio |-> white_ratio, rating |-> get_wcag_rating(white_ratio)]

\* the final statements, lines 157-162
FallbackTriple(bg) ==
    LET white_ratio == get_contrast_ratio(WHITE, bg)
        black_ratio == get_contrast_ratio(BLACK, bg)
    IN IF white_ratio >= black_ratio
       THEN [color |-> WHITE, ratio |-> white_ratio, rating |-> get_wcag_rating(white_ratio)]
       ELSE [color |-> BLACK, ratio |-> black_ratio, rating |-> get_wcag_rating(black_ratio)]

----------------------------------------------------------------------------
(* _find_accessible_text as a state machine: one step per candidate *)

\* backgrounds on which the integer conversions give the colours and the ratings
\* that the program's floating point gives, for every candidate of the search
Backgrounds ==
    { <<HASH, 0, 0, 0, 0, 0, 0>>, <<HASH, 15, 15, 15, 15, 15, 15>>, <<HASH, 15, 15, 15>>,
      <<HASH, 8, 0, 8, 0, 8, 0>>, <<HASH, 7, 6, 7, 6, 7, 6>>, <<HASH, 5, 9, 5, 9, 5, 9>>,
      <<HASH, 12, 12, 12, 12, 12, 12>>, <<HASH, 1, 10, 1, 10, 1, 10>>,
      <<HASH, 3, 4, 9, 8, 13, 11>>, <<HASH, 2, 12, 3, 14, 5, 0>>, <<HASH, 14, 7, 4, 12, 3, 12>>,
      <<HASH, 11, 2, 2, 2, 2, 2>>, <<HASH, 2, 7, 10, 14, 6, 0>>, <<HASH, 8, 14, 4, 4, 10, 13>>,
      <<HASH, 1, 2, 3>>, <<HASH, 10, 11, 12>> }

IterationChoices == (0..MaxIterations) \cup {DEFAULT_MAX_ITERATIONS}

InitText ==
    /\ background \in Backgrounds
    /\ target_rating \in TargetRatings
    /\ max_iterations \in IterationChoices
    /\ tpc = "fixed"
    /\ ti = 1
    /\ tried = <<>>
    /\ found = NoTriple
    /\ BatchIdle
    /\ ExtractIdle
    /\ RatingIdle
    /\ CatIdle
    /\ CallsIdle

\* one iteration of `for color_name, hex_color in [...]`, lines 128-134
TryFixed ==
    /\ tpc = "fixed"
    /\ LET cand == Examine(FixedCandidates[ti], background) IN
       /\ tried' = Append(tried, Tried(cand, target_rating))
       /\ IF Accepted(cand.rating, target_rating)
          THEN tpc' = "done" /\ found' = cand /\ ti' = ti
          ELSE /\ found' = found
               /\ IF ti < Len(FixedCandidates)
                  THEN tpc' = "fixed" /\ ti' = ti + 1
                  ELSE /\ ti' = 1
                       /\ tpc' = IF 1 <= max_iterations THEN "darker" ELSE "fallback"
    /\ UNCHANGED <<background, target_rating, max_iterations, batchVars, extractVars, ratingVars, catVars, callVars>>

\* the first half of an iteration of `for i in range(1, max_iterations + 1)`,
\* lines 139-145; hex_to_rgb raises ValueError for a string that has not 3 or
\* 6 characters after its '#'
TryDarker ==
    /\ tpc = "darker"
    /\ LET darker == _adjust_brightness(background, -ti * 5) IN
       IF Len(darker) # 7
       THEN tpc' = "raised" /\ UNCHANGED <<tried, found>>
       ELSE LET cand == Examine(darker, background) IN
            /\ tried' = Append(tried, Tried(cand, target_rating))
            /\ IF Accepted(cand.rating, target_rating)
               THEN tpc' = "done" /\ found' = cand
               ELSE tpc' = "lighter" /\ found' = found
    /\ UNCHANGED <<background, target_rating, max_iterations, ti, batchVars, extractVars, ratingVars, catVars, callVars>>

\* the second half of the iteration, lines 148-154
TryLighter ==
    /\ tpc = "lighter"
    /\ LET lighter == _adjust_brightness(background, ti * 5) IN
       IF Len(lighter) # 7
       THEN tpc' = "raised" /\ UNCHANGED <<tried, found, ti>>
       ELSE LET cand == Examine(lighter, background) IN
            /\ tried' = Append(tried, Tried(cand, target_rating))
            /\ IF Accepted(cand.rating, target_rating)
               THEN tpc' = "done" /\ found' = cand /\ ti' = ti
               ELSE /\ found' = found
                    /\ IF ti < max_iterations
                       THEN tpc' = "darker" /\ ti' = ti + 1
                       ELSE tpc' = "fallback" /\ ti' = ti
    /\ UNCHANGED <<background, target_rating, max_iterations, batchVars, extractVars, ratingVars, catVars, callVars>>

\* lines 157-162
Fallback ==
    /\ tpc = "fallback"
    /\ found' = FallbackTriple(background)
    /\ tpc' = "done"
    /\ UNCHANGED <<background, target_rating, max_iterations, ti, tried, batchVars, extractVars, ratingVars, catVars, callVars>>

NextText == TryFixed \/ TryDarker \/ TryLighter \/ Fallback

SpecText == InitText /\ [][NextText]_vars

----------------------------------------------------------------------------
(* Properties of _find_accessible_text *)

\* the candidate order as the specification states it: black, white, then for
\* i = 1..n the background darkened by 5*i and the background lightened by 5*i
StatedOrder(bg, n) ==
    [k \in 1..(2 + 2 * n) |->
        IF k = 1 THEN BLACK
        ELSE IF k = 2 THEN WHITE
        ELSE IF k % 2 = 1 THEN _adjust_brightness(bg, -5 * ((k - 1) \div 2))
        ELSE _adjust_brightness(bg, 5 * ((k - 1) \div 2))]

RatingAgainst(hex_color, bg) == get_wcag_rating(get_contrast_ratio(hex_color, bg))

StatedAcceptance(r, t) == r = t \/ (t = "AA" /\ r \in {"AA", "AAA", "AA Large"})

StatedHits(bg, t, n) ==
    {k \in 1..(2 + 2 * n) : StatedAcceptance(RatingAgainst(StatedOrder(bg, n)[k], bg), t)}

\* C2: the candidates are examined in the order black, white, darker by 5*i,
\* lighter by 5*i for i = 1..max_iterations; the result is the first accepted
\* candidate of that order, and only when none is accepted it is whichever of
\* white and black has the higher contrast against the background.
C2_FirstAcceptedInOrder ==
    LET order == StatedOrder(background, max_iterations)
        hits == StatedHits(background, target_rating, max_iterations)
    IN /\ tpc # "idle" =>
            /\ Len(tried) <= Len(order)
            /\ \A k \in 1..Len(tried) : tried[k].color = order[k]
       /\ tpc = "done" =>
            IF hits # {}
            THEN LET first == CHOOSE k \in hits : \A j \in hits : k <= j
                 IN /\ Len(tried) = first
                    /\ found.color = order[first]
                    /\ found.rating = RatingAgainst(order[first], background)
            ELSE /\ Len(tried) = Len(order)
                 /\ found.color \in {WHITE, BLACK}
                 /\ found.ratio = get_contrast_ratio(found.color, background)
                 /\ found.ratio >= get_contrast_ratio(WHITE, background)
                 /\ found.ratio >= get_contrast_ratio(BLACK, background)

\* a search that went past black and white and returned a candidate of the loop
C2_Witness ==
    /\ tpc = "done"
    /\ Len(tried) > 3
    /\ tried[Len(tried)].accepted
    /\ ~tried[1].accepted /\ ~tried[2].accepted /\ ~tried[3].accepted
    /\ found.color = tried[Len(tried)].color

\* C3: a candidate rated r is accepted for target t iff r = t, or t = "AA" and
\* r is AA, AAA or AA Large; an accepted candidate is the one returned, and a
\* candidate rated AAA is not accepted for the target "AA Large".
C3_AcceptanceRule ==
    tpc # "idle" =>
        \A k \in 1..Len(tried) :
            /\ tried[k].accepted <=>
                  \/ tried[k].rating = target_rating
                  \/ /\ target_rating = "AA"
                     /\ tried[k].rating \in {"AA", "AAA", "AA Large"}
            /\ tried[k].accepted =>
                  /\ tpc = "done" /\ k = Len(tried) /\ found.color = tried[k].color
            /\ (target_rating \in {"AAA", "AA Large"} /\ tried[k].rating # target_rating)
                  => ~tried[k].accepted

\* a candidate rated AAA was examined for the target "AA Large" and passed over
C3_Witness ==
    /\ tpc = "done"
    /\ target_rating = "AA Large"
    /\ \E k \in 1..Len(tried) : tried[k].rating = "AAA" /\ ~tried[k].accepted
    /\ found.rating = "AA Large"

\* C4: the call never raises, every step before the return examines one more
\* candidate of at most 2 + 2 * max_iterations, and the call returns a (colour, ratio, rating)
\* triple; for the target "AA" with the default 20 iterations the returned
\* rating is never "Fail".
C4_ReturnsTripleNeverFailForAA ==
    /\ tpc # "raised"
    /\ tpc \in {"fixed", "darker", "lighter", "fallback"} =>
            /\ Len(tried) < 2 + 2 * max_iterations + 1
            /\ tpc = "fixed" => ti \in DOMAIN FixedCandidates
            /\ tpc \in {"darker", "lighter"} => ti \in 1..max_iterations
            /\ tpc = "darker" => Len(tried) = 2 * ti
            /\ tpc = "lighter" => Len(tried) = 2 * ti + 1
    /\ tpc = "done" =>
            /\ Len(found.color) = 7
            /\ found.rating \in Ratings
            /\ found.ratio = get_contrast_ratio(found.color, background)
            /\ found.rating = get_wcag_rating(found.ratio)
            /\ (target_rating = "AA" /\ max_iterations = DEFAULT_MAX_ITERATIONS)
                    => found.rating # "Fail"

\* the default call for target "AA" on a mid gray, where black and white are
\* both close to the AA threshold, has returned
C4_Witness ==
    /\ tpc = "done"
    /\ target_rating = "AA"
    /\ max_iterations = DEFAULT_MAX_ITERATIONS
    /\ background = <<HASH, 7, 6, 7, 6, 7, 6>>
    /\ found.rating = "AA"

----------------------------------------------------------------------------
(* get_wcag_rating called on a ratio *)

InitRating ==
    /\ contrast_ratio \in 0..MaxRatio
    /\ wcag_result = "none"
    /\ rpc = "call"
    /\ BatchIdle
    /\ ExtractIdle
    /\ TextIdle
    /\ CatIdle
    /\ CallsIdle

Rate ==
    /\ rpc = "call"
    /\ wcag_result' = get_wcag_rating(contrast_ratio)
    /\ rpc' = "done"
    /\ UNCHANGED <<contrast_ratio, batchVars, extractVars, textVars, catVars, callVars>>

NextRating == Rate

SpecRating == InitRating /\ [][NextRating]_vars

\* C8: the rating is "AAA" iff ratio >= 7.0, "AA" iff 4.5 <= ratio < 7.0,
\* "AA Large" iff 3.0 <= ratio < 4.5 and "Fail" iff ratio < 3.0, and it is
\* one of these four tags for every ratio (ratios in thousandths).
C8_InclusiveThresholds ==
    rpc = "done" =>
        /\ wcag_result \in {"AAA", "AA", "AA Large", "Fail"}
        /\ wcag_result = "AAA" <=> contrast_ratio >= 7000
        /\ wcag_result = "AA" <=> (4500 <= contrast_ratio /\ contrast_ratio < 7000)
        /\ wcag_result = "AA Large" <=> (3000 <= contrast_ratio /\ contrast_ratio < 4500)
        /\ wcag_result = "Fail" <=> contrast_ratio < 3000

\* a ratio exactly on the AAA threshold has been rated AAA
C8_Witness ==
    rpc = "done" /\ contrast_ratio = 7000 /\ wcag_result = "AAA"

----------------------------------------------------------------------------
(* analyzers/classification.py *)

\* the dominance test with >= in place of >
is_dominant_color_or_equal(rgb, component) ==
    LET components == [red |-> 1, green |-> 2, blue |-> 3]
        idx == components[component]
        other_indices == SelectSeq(<<1, 2, 3>>, LAMBDA i : i # idx)
    IN rgb[idx] >= Max2(rgb[other_indices[1]], rgb[other_indices[2]])

is_dominant_color(rgb, component) ==
    LET components == [red |-> 1, green |-> 2, blue |-> 3]
        idx == components[component]
        other_indices == SelectSeq(<<1, 2, 3>>, LAMBDA i : i # idx)
    IN rgb[idx] > Max2(rgb[other_indices[1]], rgb[other_indices[2]])

is_red_color(rgb) == is_dominant_color(rgb, "red")
is_green_color(rgb) == is_dominant_color(rgb, "green")
is_blue_color(rgb) == is_dominant_color(rgb, "blue")

\* x put into a list that is in descending order of frequency, behind every
\* entry whose frequency is not lower
InsertDescending(items, x) ==
    LET before == SelectSeq(items, LAMBDA y : y[2] >= x[2])
        after == SelectSeq(items, LAMBDA y : y[2] < x[2])
    IN before \o <<x>> \o after

RECURSIVE reversed(_)
reversed(items) ==
    IF items = <<>> THEN <<>>
    ELSE Append(reversed(Tail(items)), Head(items))

RECURSIVE sorted_ascending(_)
sorted_ascending(items) ==
    IF items = <<>> THEN <<>>
    ELSE LET rest == sorted_ascending(SubSeq(items, 1, Len(items) - 1))
             x == items[Len(items)]
         IN SelectSeq(rest, LAMBDA y : y[2] <= x[2]) \o <<x>>
                \o SelectSeq(rest, LAMBDA y : y[2] > x[2])

\* an ascending stable sort whose result is read backwards
sorted_then_reversed(items) == reversed(sorted_ascending(items))

\* sorted(items, key=lambda x: x[1], reverse=True): a stable sort, entries of
\* equal frequency keep their order
RECURSIVE sorted_by_freq_reverse(_)
sorted_by_freq_reverse(items) ==
    IF items = <<>> THEN <<>>
    ELSE InsertDescending(sorted_by_freq_reverse(SubSeq(items, 1, Len(items) - 1)),
                          items[Len(items)])

----------------------------------------------------------------------------
(* categorize_colors as a state machine: one step per colour, then the sort *)

CatColors ==
    { <<HASH, 15, 15, 0, 0, 0, 0>>,       \* #FF0000
      <<HASH, 15, 0, 0>>,                 \* #F00
      <<HASH, 12, 8, 6, 4, 3, 2>>,        \* #C86432
      <<HASH, 0, 0, 15, 15, 0, 0>>,       \* #00FF00
      <<HASH, 1, 0, 2, 0, 15, 0>>,        \* #1020F0
      <<HASH, 8, 0, 8, 0, 8, 0>>,         \* #808080
      <<HASH, 15, 15, 15, 15, 0, 0>> }    \* #FFFF00

\* the maps: sequences of pairs with distinct keys
ColorMaps ==
    UNION { { m \in [1..n -> CatColors \X (1..MaxFreq)] :
                \A i, j \in 1..n : i # j => m[i][1] # m[j][1] } : n \in 0..MaxColors }

InitCat ==
    /\ hex_colors_with_freq \in ColorMaps
    /\ categories = EmptyCategories
    /\ cpos = 1
    /\ cpc = "loop"
    /\ BatchIdle
    /\ ExtractIdle
    /\ TextIdle
    /\ RatingIdle
    /\ CallsIdle

\* one iteration of `for color, freq in hex_colors_with_freq.items()`
CatStep ==
    /\ cpc = "loop"
    /\ cpos <= Len(hex_colors_with_freq)
    /\ LET color == hex_colors_with_freq[cpos][1]
           freq == hex_colors_with_freq[cpos][2]
           rgb == hex_to_rgb(color)
       IN categories' =
            IF is_red_color(rgb)
            THEN [categories EXCEPT !.red = Append(@, <<color, freq>>)]
            ELSE IF is_green_color(rgb)
            THEN [categories EXCEPT !.green = Append(@, <<color, freq>>)]
            ELSE IF is_blue_color(rgb)
            THEN [categories EXCEPT !.blue = Append(@, <<color, freq>>)]
            ELSE categories
    /\ cpos' = cpos + 1
    /\ UNCHANGED <<hex_colors_with_freq, cpc, batchVars, extractVars, textVars, ratingVars, callVars>>

\* the for loop is exhausted; `for key in categories` sorts the three lists
CatSort ==
    /\ cpc = "loop"
    /\ cpos > Len(hex_colors_with_freq)
    /\ categories' = [key \in DOMAIN categories |-> sorted_by_freq_reverse(categories[key])]
    /\ cpc' = "done"
    /\ UNCHANGED <<hex_colors_with_freq, cpos, batchVars, extractVars, textVars, ratingVars, callVars>>

NextCat == CatStep \/ CatSort

SpecCat == InitCat /\ [][NextCat]_vars

----------------------------------------------------------------------------
(* Properties of categorize_colors *)

Buckets == {"red", "green", "blue"}

InBucket(pair, key) == \E k \in 1..Len(categories[key]) : categories[key][k] = pair

\* channel X strictly greater than both other channels
StrictlyGreatest(rgb, key) ==
    CASE key = "red" -> rgb[1] > rgb[2] /\ rgb[1] > rgb[3]
      [] key = "green" -> rgb[2] > rgb[1] /\ rgb[2] > rgb[3]
      [] key = "blue" -> rgb[3] > rgb[1] /\ rgb[3] > rgb[2]

\* C9: in the result each input colour is in bucket X, with its input
\* frequency, iff channel X is strictly greater than both other channels; a
\* colour whose maximum is tied is in no bucket; no colour is in two buckets or
\* twice in one; at most one dominance test holds for a colour.
C9_BucketIffStrictlyDominant ==
    cpc = "done" =>
        /\ \A i \in 1..Len(hex_colors_with_freq) :
             LET pair == hex_colors_with_freq[i]
                 rgb == hex_to_rgb(pair[1])
             IN /\ \A key \in Buckets : InBucket(pair, key) <=> StrictlyGreatest(rgb, key)
                /\ Cardinality({key \in Buckets : StrictlyGreatest(rgb, key)}) <= 1
                /\ Cardinality({key \in Buckets : InBucket(pair, key)}) <= 1
                /\ (\A key \in Buckets : ~StrictlyGreatest(rgb, key))
                      => \A key \in Buckets : \A k \in 1..Len(categories[key]) :
                            categories[key][k][1] # pair[1]
        /\ \A key \in Buckets : \A k \in 1..Len(categories[key]) :
             /\ \E i \in 1..Len(hex_colors_with_freq) :
                    hex_colors_with_freq[i] = categories[key][k]
             /\ \A j \in 1..Len(categories[key]) :
                    j # k => categories[key][j][1] # categories[key][k][1]

\* a map with a gray, a colour whose maximum is tied and a red has been categorized
C9_Witness ==
    /\ cpc = "done"
    /\ \E i \in 1..Len(hex_colors_with_freq) :
            hex_colors_with_freq[i][1] = <<HASH, 8, 0, 8, 0, 8, 0>>
    /\ \E i \in 1..Len(hex_colors_with_freq) :
            hex_colors_with_freq[i][1] = <<HASH, 15, 15, 15, 15, 0, 0>>
    /\ Len(categories.red) = 1
    /\ categories.green = <<>> /\ categories.blue = <<>>

PositionInMap(color) ==
    CHOOSE i \in 1..Len(hex_colors_with_freq) : hex_colors_with_freq[i][1] = color

\* C10: in the result every bucket is in non-increasing order of frequency
\* and entries of equal frequency are in the order of the input map.
C10_DescendingStable ==
    cpc = "done" =>
        \A key \in Buckets : \A i, j \in 1..Len(categories[key]) :
            i < j =>
                /\ categories[key][i][2] >= categories[key][j][2]
                /\ categories[key][i][2] = categories[key][j][2]
                      => PositionInMap(categories[key][i][1])
                            < PositionInMap(categories[key][j][1])

\* three reds, the rarest first in the map and the two others equally frequent:
\* the sort moved the rarest to the end and kept the order of the others
C10_Witness ==
    /\ cpc = "done"
    /\ Len(categories.red) = 3
    /\ hex_colors_with_freq[1][2] < hex_colors_with_freq[2][2]
    /\ hex_colors_with_freq[2][2] = hex_colors_with_freq[3][2]
    /\ categories.red[1] = hex_colors_with_freq[2]
    /\ categories.red[2] = hex_colors_with_freq[3]
    /\ categories.red[3] = hex_colors_with_freq[1]

----------------------------------------------------------------------------
(* utils/validators.py: validate_hex_color; TRUE means the validation passes *)

\* pattern.match with ^#[0-9a-fA-F]{3}(?:[0-9a-fA-F]{3})?$ : the '$' matches at
\* the end of the string and also before a newline that ends the string
validate_hex_color(hex_color) ==
    LET body == IF hex_color # <<>> /\ hex_color[Len(hex_color)] = NEWLINE
                THEN SubSeq(hex_color, 1, Len(hex_color) - 1)
                ELSE hex_color
    IN /\ Len(body) \in {4, 7}
       /\ body[1] = HASH
       /\ \A k \in 2..Len(body) : body[k] \in HexDigits

----------------------------------------------------------------------------
(* analyzers/dark_mode.py *)

\* rating_priority.get(rating, default)
rating_priority(rating, default) ==
    CASE rating = "Fail" -> 0
      [] rating = "AA Large" -> 1
      [] rating = "AA" -> 2
      [] rating = "AAA" -> 3
      [] OTHER -> default

\* the verdict with the acceptance rule of the accessible-text search: for the
\* minimum "AA" any rating other than Fail passes
_check_rating_compatibility_lenient(light_rating, dark_rating, min_rating) ==
    IF min_rating = "AA"
    THEN light_rating # "Fail" /\ dark_rating # "Fail"
    ELSE /\ rating_priority(light_rating, 0) >= rating_priority(min_rating, 1)
         /\ rating_priority(dark_rating, 0) >= rating_priority(min_rating, 1)

_check_rating_compatibility(light_rating, dark_rating, min_rating) ==
    LET min_priority == rating_priority(min_rating, 1)
    IN /\ rating_priority(light_rating, 0) >= min_priority
       /\ rating_priority(dark_rating, 0) >= min_priority

Raised(exc) == [kind |-> "raise", exc |-> exc]

\* the DarkModeResult, or the exception of the call
check_dark_mode_compatibility(text_color, light_background, dark_background, min_rating) ==
    IF \/ ~validate_hex_color(text_color)
       \/ ~validate_hex_color(light_background)
       \/ ~validate_hex_color(dark_background)
    THEN Raised("ValidationError")
    ELSE IF \/ hex_to_rgb(text_color) = ValueError
            \/ hex_to_rgb(light_background) = ValueError
            \/ hex_to_rgb(dark_background) = ValueError
    THEN Raised("ValueError")
    ELSE Only({
           LET light_rating == get_wcag_rating(light_contrast)
               dark_rating == get_wcag_rating(dark_contrast)
           IN [kind |-> "return",
               light_background |-> light_background,
               dark_background |-> dark_background,
               text_color |-> text_color,
               light_contrast |-> light_contrast,
               dark_contrast |-> dark_contrast,
               light_rating |-> light_rating,
               dark_rating |-> dark_rating,
               is_compatible |->
                  _check_rating_compatibility(light_rating, dark_rating, min_rating)]
           : light_contrast \in {get_contrast_ratio(text_color, light_background)},
             dark_contrast \in {get_contrast_ratio(text_color, dark_background)} })

----------------------------------------------------------------------------
(* check_dark_mode_compatibility called once *)

Gray(hi, lo) == <<HASH, hi, lo, hi, lo, hi, lo>>

\* the state machines other than the one of the call records
otherVars == <<batchVars, extractVars, textVars, ratingVars, catVars, unitVars>>

OthersIdle == BatchIdle /\ ExtractIdle /\ TextIdle /\ RatingIdle /\ CatIdle /\ UnitsIdle

\* the state machines and call records above, for the calls below
earlierVars == <<batchVars, extractVars, textVars, ratingVars, catVars,
                 compat, finder, suggest, palette, parsed, contrast>>

EarlierIdle ==
    /\ BatchIdle /\ ExtractIdle /\ TextIdle /\ RatingIdle /\ CatIdle
    /\ compat = NotCalled /\ finder = NotCalled /\ suggest = NotCalled
    /\ palette = NotCalled /\ parsed = NotCalled /\ contrast = NotCalled

TextColors ==
    { BLACK, WHITE, Gray(3, 3), Gray(6, 6), Gray(9, 9), Gray(8, 0), Gray(7, 6),
      Gray(5, 9), Gray(11, 11), <<HASH, 15, 15, 15>>,
      <<HASH, 3, 4, 9, 8, 13, 11>>, <<HASH, 14, 7, 4, 12, 3, 12>>,
      <<HASH, 2, 7, 10, 14, 6, 0>>, <<HASH, 8, 14, 4, 4, 10, 13>> }

LightBackgrounds == { WHITE, Gray(15, 0), Gray(12, 12), Gray(11, 3), Gray(8, 0) }
DarkBackgrounds == { Gray(1, 2), Gray(1, 10), BLACK, Gray(3, 3) }

NoResult == [kind |-> "none"]

InitCompat ==
    /\ compat \in [pc : {"call"}, text_color : TextColors,
                   light_background : LightBackgrounds,
                   dark_background : DarkBackgrounds,
                   min_rating : Ratings, result : {NoResult}]
    /\ finder = NotCalled /\ suggest = NotCalled /\ palette = NotCalled
    /\ parsed = NotCalled /\ contrast = NotCalled
    /\ OthersIdle

CheckCompatibility ==
    /\ compat.pc = "call"
    /\ compat' = [compat EXCEPT
            !.pc = "done",
            !.result = check_dark_mode_compatibility(
                compat.text_color, compat.light_background,
                compat.dark_background, compat.min_rating)]
    /\ UNCHANGED <<finder, suggest, palette, parsed, contrast, otherVars>>

NextCompat == CheckCompatibility

SpecCompat == InitCompat /\ [][NextCompat]_vars

\* the total order Fail < AA Large < AA < AAA
TierRank(r) == IF r = "AAA" THEN 3 ELSE IF r = "AA" THEN 2 ELSE IF r = "AA Large" THEN 1 ELSE 0

\* C11: is_compatible holds iff the light rating and the dark rating are both at
\* or above min_rating in the order Fail < AA Large < AA < AAA; a rating "AA
\* Large" on either background is not compatible for the minimum "AA"; each
\* rating is get_wcag_rating of the contrast against its own background.
C11_BothAtOrAboveMinimum ==
    compat.pc = "done" =>
        LET r == compat.result IN
        /\ r.kind = "return"
        /\ r.light_rating = get_wcag_rating(get_contrast_ratio(compat.text_color,
                                                               compat.light_background))
        /\ r.dark_rating = get_wcag_rating(get_contrast_ratio(compat.text_color,
                                                              compat.dark_background))
        /\ r.is_compatible <=>
              /\ TierRank(r.light_rating) >= TierRank(compat.min_rating)
              /\ TierRank(r.dark_rating) >= TierRank(compat.min_rating)
        /\ (compat.min_rating = "AA" /\ "AA Large" \in {r.light_rating, r.dark_rating})
              => ~r.is_compatible

\* a text rated "AA Large" on the light background and AA on the dark one was
\* judged against the minimum "AA"
C11_Witness ==
    /\ compat.pc = "done"
    /\ compat.min_rating = "AA"
    /\ compat.result.kind = "return"
    /\ compat.result.light_rating = "AA Large"
    /\ compat.result.dark_rating = "AA"
    /\ ~compat.result.is_compatible

----------------------------------------------------------------------------
(* get_compatible_text_color as a state machine: one step per candidate *)

\* line 277
test_colors == <<BLACK, WHITE, Gray(3, 3), Gray(6, 6), Gray(9, 9)>>

\* range(5, 90, 5): the last level, 90, is left out
gray_levels_to_85 == [k \in 1..17 |-> 5 * k]

\* range(5, 95, 5)
gray_levels == [k \in 1..18 |-> 5 * k]

\* f"#{i:02X}{i:02X}{i:02X}"
gray_of(i) == FormatHex(<<i, i, i>>)

FinderTargets == {"AA", "AAA", "AA Large"}

FinderTried(color, result) ==
    [color |-> color, compatible |-> result.kind = "return" /\ result.is_compatible]

InitFinder ==
    /\ finder \in [pc : {"validate"}, background_light : LightBackgrounds,
                   background_dark : DarkBackgrounds, target_rating : FinderTargets,
                   i : {0}, tried : {<<>>}, result : {<<>>}, exc : {"none"}]
    /\ compat = NotCalled /\ suggest = NotCalled /\ palette = NotCalled
    /\ parsed = NotCalled /\ contrast = NotCalled
    /\ OthersIdle

\* lines 273-274
FinderValidate ==
    /\ finder.pc = "validate"
    /\ finder' = IF /\ validate_hex_color(finder.background_light)
                    /\ validate_hex_color(finder.background_dark)
                 THEN [finder EXCEPT !.pc = "common", !.i = 1]
                 ELSE [finder EXCEPT !.pc = "raised", !.exc = "ValidationError"]
    /\ UNCHANGED <<compat, suggest, palette, parsed, contrast, otherVars>>

\* one iteration of `for color in test_colors`, lines 279-285
FinderTryCommon ==
    /\ finder.pc = "common"
    /\ \E color \in {test_colors[finder.i]} :
       \E result \in {check_dark_mode_compatibility(color, finder.background_light,
                        finder.background_dark, finder.target_rating)} :
          finder' =
            IF result.kind = "raise"
            THEN [finder EXCEPT !.pc = "raised", !.exc = result.exc]
            ELSE IF result.is_compatible
            THEN [finder EXCEPT !.pc = "done", !.result = color,
                                !.tried = Append(@, FinderTried(color, result))]
            ELSE IF finder.i < Len(test_colors)
            THEN [finder EXCEPT !.i = @ + 1,
                                !.tried = Append(@, FinderTried(color, result))]
            ELSE [finder EXCEPT !.pc = "grays", !.i = 1,
                                !.tried = Append(@, FinderTried(color, result))]
    /\ UNCHANGED <<compat, suggest, palette, parsed, contrast, otherVars>>

\* one iteration of `for i in range(5, 95, 5)`, lines 290-298
FinderTryGray ==
    /\ finder.pc = "grays"
    /\ \E gray \in {gray_of(gray_levels[finder.i])} :
       \E result \in {check_dark_mode_compatibility(gray, finder.background_light,
                        finder.background_dark, finder.target_rating)} :
          finder' =
            IF result.kind = "raise"
            THEN [finder EXCEPT !.pc = "raised", !.exc = result.exc]
            ELSE IF result.is_compatible
            THEN [finder EXCEPT !.pc = "done", !.result = gray,
                                !.tried = Append(@, FinderTried(gray, result))]
            ELSE IF finder.i < Len(gray_levels)
            THEN [finder EXCEPT !.i = @ + 1,
                                !.tried = Append(@, FinderTried(gray, result))]
            ELSE [finder EXCEPT !.pc = "fallback",
                                !.tried = Append(@, FinderTried(gray, result))]
    /\ UNCHANGED <<compat, suggest, palette, parsed, contrast, otherVars>>

\* lines 300-302
FinderFallback ==
    /\ finder.pc = "fallback"
    /\ finder' = [finder EXCEPT !.pc = "done", !.result = BLACK]
    /\ UNCHANGED <<compat, suggest, palette, parsed, contrast, otherVars>>

NextFinder == FinderValidate \/ FinderTryCommon \/ FinderTryGray \/ FinderFallback

SpecFinder == InitFinder /\ [][NextFinder]_vars

\* the order as stated: the five common colours, then the grays of channel
\* value 5, 10, ..., 90
StatedFinderOrder ==
    <<BLACK, WHITE, Gray(3, 3), Gray(6, 6), Gray(9, 9)>>
        \o [k \in 1..18 |-> Gray((5 * k) \div 16, (5 * k) % 16)]

StatedCompatible(color) ==
    check_dark_mode_compatibility(color, finder.background_light,
        finder.background_dark, finder.target_rating).is_compatible

\* C12: the candidates are tried in the order #000000, #FFFFFF, #333333,
\* #666666, #999999, #050505, #0A0A0A, ..., #5A5A5A; the result is the first
\* compatible one, or #000000 when none is; the call does not raise.
C12_FirstCompatibleInOrder ==
    finder.pc # "idle" =>
        /\ finder.pc # "raised"
        /\ Len(finder.tried) <= Len(StatedFinderOrder)
        /\ \A k \in 1..Len(finder.tried) : finder.tried[k].color = StatedFinderOrder[k]
        /\ finder.pc = "done" =>
             LET hits == {k \in 1..Len(StatedFinderOrder) :
                            StatedCompatible(StatedFinderOrder[k])}
             IN IF hits # {}
                THEN LET first == CHOOSE k \in hits : \A j \in hits : k <= j
                     IN Len(finder.tried) = first /\ finder.result = StatedFinderOrder[first]
                ELSE Len(finder.tried) = Len(StatedFinderOrder) /\ finder.result = BLACK

\* the search passed the five common colours and every gray below #5A5A5A, and
\* returned #5A5A5A
C12_Witness ==
    /\ finder.pc = "done"
    /\ Len(finder.tried) = 23
    /\ finder.tried[23].compatible
    /\ finder.result = Gray(5, 10)

\* C13 (as claimed): the colour returned by get_compatible_text_color is
\* compatible: check_dark_mode_compatibility of it against the same two
\* backgrounds and rating gives is_compatible = true.
C13_ReturnedColourIsCompatible ==
    finder.pc = "done" => StatedCompatible(finder.result)

----------------------------------------------------------------------------
(* suggest_dark_mode_adjustments as a state machine: one step per delta *)

\* the default of the parameter max_iterations, line 209
DEFAULT_SUGGEST_ITERATIONS == 10

\* str(n) of a natural number: its decimal digits
RECURSIVE Decimal(_)
Decimal(n) == IF n < 10 THEN <<n>> ELSE Append(Decimal(n \div 10), n % 10)

\* range(-max_iterations, max_iterations): the last value is left out
suggest_range_without_last(k) == [j \in 1..(2 * k) |-> j - k - 1]

\* range(-max_iterations, max_iterations + 1)
suggest_range(k) == [j \in 1..(2 * k + 1) |-> j - k - 1]

\* f"{'+' if i > 0 else ''}{i * 5}%"
adjustment_label(i) ==
    (IF i > 0 THEN <<PLUS>> \o Decimal(i * 5) ELSE <<MINUS>> \o Decimal(0 - i * 5))
        \o <<PERCENT>>

\* round(x, 2) of a contrast held in thousandths, in hundredths
round2(x) == RoundDiv(x, 10)

SuggestTexts ==
    { Gray(8, 0), Gray(7, 6), Gray(12, 12), Gray(1, 10),
      <<HASH, 3, 4, 9, 8, 13, 11>>, <<HASH, 2, 12, 3, 14, 5, 0>>,
      <<HASH, 14, 7, 4, 12, 3, 12>>, <<HASH, 2, 7, 10, 14, 6, 0>>,
      <<HASH, 8, 14, 4, 4, 10, 13>>, <<HASH, 1, 2, 3>> }

SuggestIterationChoices == (0..MaxSuggestIterations) \cup {DEFAULT_SUGGEST_ITERATIONS}

InitSuggest ==
    /\ suggest \in [pc : {"validate"}, text_color : SuggestTexts,
                    light_background : {WHITE, Gray(11, 3)},
                    dark_background : {Gray(1, 2), BLACK},
                    target_rating : FinderTargets,
                    max_iterations : SuggestIterationChoices,
                    pos : {0}, evaluated : {<<>>}, suggestions : {<<>>},
                    exc : {"none"}]
    /\ compat = NotCalled /\ finder = NotCalled /\ palette = NotCalled
    /\ parsed = NotCalled /\ contrast = NotCalled
    /\ OthersIdle

\* lines 223-227
SuggestValidate ==
    /\ suggest.pc = "validate"
    /\ suggest' = IF /\ validate_hex_color(suggest.text_color)
                     /\ validate_hex_color(suggest.light_background)
                     /\ validate_hex_color(suggest.dark_background)
                  THEN [suggest EXCEPT !.pc = "loop", !.pos = 1]
                  ELSE [suggest EXCEPT !.pc = "raised", !.exc = "ValidationError"]
    /\ UNCHANGED <<compat, finder, palette, parsed, contrast, otherVars>>

\* one iteration of `for i in range(-max_iterations, max_iterations + 1)`,
\* lines 230-250
SuggestStep ==
    /\ suggest.pc = "loop"
    /\ suggest.pos <= Len(suggest_range(suggest.max_iterations))
    /\ LET i == suggest_range(suggest.max_iterations)[suggest.pos] IN
       IF i = 0
       THEN suggest' = [suggest EXCEPT !.pos = @ + 1]
       ELSE IF hex_to_rgb(suggest.text_color) = ValueError
       THEN suggest' = [suggest EXCEPT !.pc = "raised", !.exc = "ValueError"]
       ELSE \E adjusted \in {_adjust_brightness(suggest.text_color, i * 5)} :
            \E result \in {check_dark_mode_compatibility(adjusted,
                            suggest.light_background, suggest.dark_background,
                            suggest.target_rating)} :
               suggest' =
                 IF result.kind = "raise"
                 THEN [suggest EXCEPT !.pc = "raised", !.exc = result.exc]
                 ELSE IF result.is_compatible
                 THEN [suggest EXCEPT
                        !.pos = @ + 1,
                        !.evaluated = Append(@, i * 5),
                        !.suggestions = Append(@,
                            [color |-> adjusted,
                             adjustment |-> adjustment_label(i),
                             light_contrast |-> round2(result.light_contrast),
                             dark_contrast |-> round2(result.dark_contrast)])]
                 ELSE [suggest EXCEPT !.pos = @ + 1, !.evaluated = Append(@, i * 5)]
    /\ UNCHANGED <<compat, finder, palette, parsed, contrast, otherVars>>

\* the range is exhausted: line 252
SuggestReturn ==
    /\ suggest.pc = "loop"
    /\ suggest.pos > Len(suggest_range(suggest.max_iterations))
    /\ suggest' = [suggest EXCEPT !.pc = "done"]
    /\ UNCHANGED <<compat, finder, palette, parsed, contrast, otherVars>>

NextSuggest == SuggestValidate \/ SuggestStep \/ SuggestReturn

SpecSuggest == InitSuggest /\ [][NextSuggest]_vars

\* the deltas as stated: -5k, ..., -5, +5, ..., +5k
StatedDeltas(k) == [j \in 1..(2 * k) |-> IF j <= k THEN -5 * (k - j + 1) ELSE 5 * (j - k)]

StatedPasses(delta) ==
    check_dark_mode_compatibility(_adjust_brightness(suggest.text_color, delta),
        suggest.light_background, suggest.dark_background,
        suggest.target_rating).is_compatible

\* the number a label's digits spell
RECURSIVE DigitsValue(_)
DigitsValue(digits) ==
    IF digits = <<>> THEN 0
    ELSE 10 * DigitsValue(SubSeq(digits, 1, Len(digits) - 1)) + digits[Len(digits)]

\* C14: with max_iterations = k the deltas evaluated are -5k, ..., -5, +5, ...,
\* +5k in ascending order; the returned list has one entry for every delta
\* whose adjusted colour is compatible and none for another delta, in that
\* order; an entry's colour is the adjusted colour, its label the signed
\* delta followed by '%'; the list has at most 2k entries.
C14_OneEntryPerPassingDelta ==
    suggest.pc = "done" =>
        LET k == suggest.max_iterations
            passing == SelectSeq(StatedDeltas(k), StatedPasses)
        IN /\ suggest.evaluated = StatedDeltas(k)
           /\ Len(suggest.suggestions) = Len(passing)
           /\ Len(suggest.suggestions) <= 2 * k
           /\ \A n \in 1..Len(passing) :
                LET entry == suggest.suggestions[n]
                    label == entry.adjustment
                IN /\ entry.color = _adjust_brightness(suggest.text_color, passing[n])
                   /\ label[1] = (IF passing[n] > 0 THEN PLUS ELSE MINUS)
                   /\ label[Len(label)] = PERCENT
                   /\ DigitsValue(SubSeq(label, 2, Len(label) - 1))
                        = (IF passing[n] > 0 THEN passing[n] ELSE 0 - passing[n])

\* a call that returned several suggestions, the largest delta among them, and
\* left out a delta that did not pass
C14_Witness ==
    /\ suggest.pc = "done"
    /\ suggest.max_iterations > 1
    /\ Len(suggest.suggestions) > 1
    /\ Len(suggest.suggestions) < 2 * suggest.max_iterations
    /\ StatedPasses(5 * suggest.max_iterations)
    /\ \E n \in 1..Len(suggest.suggestions) : suggest.suggestions[n].adjustment[1] = MINUS

----------------------------------------------------------------------------
(* generators/palette.py: the palette constructors *)

_rotate_hue(hex_color, degrees) ==
    LET hsl == rgb_to_hsl(hex_to_rgb(hex_color))
        new_h == (hsl[1] + 10 * degrees) % 3600
    IN FormatHex(hsl_to_rgb(new_h, hsl[2], hsl[3]))

\* the candidates of the two loops of _find_accessible_text, in order
SearchCandidates(bg, n) ==
    FixedCandidates \o
        [k \in 1..(2 * n) |->
            IF k % 2 = 1 THEN _adjust_brightness(bg, -((k + 1) \div 2) * 5)
            ELSE _adjust_brightness(bg, (k \div 2) * 5)]

\* the call as a whole: what the steps TryFixed, TryDarker, TryLighter and
\* Fallback arrive at
_find_accessible_text(bg, target, n) ==
    Only({ LET accepted(k) == Accepted(Examine(cands[k], bg).rating, target)
           IN IF \A k \in 1..Len(cands) : ~accepted(k) THEN FallbackTriple(bg)
              ELSE Examine(cands[CHOOSE k \in 1..Len(cands) :
                                    accepted(k) /\ \A j \in 1..(k - 1) : ~accepted(j)], bg)
           : cands \in {SearchCandidates(bg, n)} })

\* rgb_to_hsl(hex_to_rgb(c))[2]
brightness(c) == rgb_to_hsl(hex_to_rgb(c))[3]

\* colors[brightnesses.index(max(brightnesses))]: the first of the lightest
lightest(colors) ==
    colors[CHOOSE i \in 1..Len(colors) :
              /\ \A j \in 1..Len(colors) : brightness(colors[j]) <= brightness(colors[i])
              /\ \A j \in 1..(i - 1) : brightness(colors[j]) < brightness(colors[i])]

\* colors.remove(x) that removes nothing
list_remove_nothing(colors, x) == colors

\* colors.remove(x): the first occurrence of x is removed
list_remove(colors, x) ==
    LET at == CHOOSE i \in 1..Len(colors) :
                 colors[i] = x /\ \A j \in 1..(i - 1) : colors[j] # x
    IN SubSeq(colors, 1, at - 1) \o SubSeq(colors, at + 1, Len(colors))

None == <<>>

ColorPalette(name, primary, secondary, bg, found_text, accent) ==
    [kind |-> "return", name |-> name, primary |-> primary, secondary |-> secondary,
     background |-> bg, text |-> found_text.color, accent |-> accent,
     wcag_rating |-> found_text.rating, contrast_ratio |-> found_text.ratio]

\* validate_hex_color(primary), then the first conversion of primary
Guard(primary, body) ==
    IF ~validate_hex_color(primary) THEN Raised("ValidationError")
    ELSE IF hex_to_rgb(primary) = ValueError THEN Raised("ValueError")
    ELSE body

\* the constructor with the text searched for the primary, not the background
generate_accessibility_palette_text_for_primary(primary, target) ==
    LET secondary == _rotate_hue(primary, 180)
    IN Guard(primary,
             Only({ ColorPalette("Complementary", primary, secondary, bg,
                        _find_accessible_text(primary, target, DEFAULT_MAX_ITERATIONS),
                        None)
                    : bg \in {IF brightness(primary) > brightness(secondary)
                              THEN primary ELSE secondary} }))

generate_accessibility_palette(primary, target) ==
    LET secondary == _rotate_hue(primary, 180)
    IN Guard(primary,
             Only({ ColorPalette("Complementary", primary, secondary, bg,
                        _find_accessible_text(bg, target, DEFAULT_MAX_ITERATIONS), None)
                    : bg \in {IF brightness(primary) > brightness(secondary)
                              THEN primary ELSE secondary} }))

generate_triadic_palette(primary, target) ==
    LET secondary == _rotate_hue(primary, 120)
        accent == _rotate_hue(primary, 240)
    IN Guard(primary,
             Only({ ColorPalette("Triadic", primary, secondary, bg,
                        _find_accessible_text(bg, target, DEFAULT_MAX_ITERATIONS), accent)
                    : bg \in {lightest(<<primary, secondary, accent>>)} }))

generate_split_complementary_palette(primary, target) ==
    LET complement == _rotate_hue(primary, 180)
        secondary == _rotate_hue(complement, 30)
        accent == _rotate_hue(complement, -30)
    IN Guard(primary,
             Only({ ColorPalette("Split-Complementary", primary, secondary, bg,
                        _find_accessible_text(bg, target, DEFAULT_MAX_ITERATIONS), accent)
                    : bg \in {lightest(<<primary, secondary, accent>>)} }))

generate_tetradic_palette(primary, target) ==
    LET secondary == _rotate_hue(primary, 90)
        accent == _rotate_hue(primary, 180)
        fourth == _rotate_hue(primary, 270)
        colors == <<primary, secondary, accent, fourth>>
    IN Guard(primary,
             Only({ ColorPalette("Tetradic", list_remove(colors, bg)[1],
                        list_remove(colors, bg)[2], bg,
                        _find_accessible_text(bg, target, DEFAULT_MAX_ITERATIONS),
                        IF fourth # bg THEN fourth ELSE accent)
                    : bg \in {lightest(colors)} }))

----------------------------------------------------------------------------
(* a palette constructor called once *)

Primaries ==
    { <<HASH, 3, 4, 9, 8, 13, 11>>, <<HASH, 2, 12, 3, 14, 5, 0>>,
      <<HASH, 14, 7, 4, 12, 3, 12>>, <<HASH, 11, 2, 2, 2, 2, 2>>,
      <<HASH, 2, 7, 10, 14, 6, 0>>, <<HASH, 8, 14, 4, 4, 10, 13>>,
      <<HASH, 12, 8, 6, 4, 3, 2>>, <<HASH, 1, 6, 10, 0, 8, 5>>,
      <<HASH, 13, 3, 5, 4, 0, 0>>, <<HASH, 3, 3, 6, 6, 9, 9>>,
      <<HASH, LOWER + 10, LOWER + 11, LOWER + 12, LOWER + 13, LOWER + 14, LOWER + 15>>,
      <<HASH, 1, 2, 3>>, <<HASH, 10, 11, 12>>,
      Gray(8, 0), BLACK, WHITE }

InitPalette ==
    /\ palette \in [pc : {"call"}, primary : Primaries,
                    target_rating : TargetRatings, result : {NoResult}]
    /\ compat = NotCalled /\ finder = NotCalled /\ suggest = NotCalled
    /\ parsed = NotCalled /\ contrast = NotCalled
    /\ OthersIdle

GenerateAccessibility ==
    /\ palette.pc = "call"
    /\ palette' = [palette EXCEPT !.pc = "done",
            !.result = generate_accessibility_palette(palette.primary, palette.target_rating)]
    /\ UNCHANGED <<compat, finder, suggest, parsed, contrast, otherVars>>

GenerateTriadic ==
    /\ palette.pc = "call"
    /\ palette' = [palette EXCEPT !.pc = "done",
            !.result = generate_triadic_palette(palette.primary, palette.target_rating)]
    /\ UNCHANGED <<compat, finder, suggest, parsed, contrast, otherVars>>

GenerateSplitComplementary ==
    /\ palette.pc = "call"
    /\ palette' = [palette EXCEPT !.pc = "done",
            !.result = generate_split_complementary_palette(palette.primary,
                                                            palette.target_rating)]
    /\ UNCHANGED <<compat, finder, suggest, parsed, contrast, otherVars>>

GenerateTetradic ==
    /\ palette.pc = "call"
    /\ palette' = [palette EXCEPT !.pc = "done",
            !.result = generate_tetradic_palette(palette.primary, palette.target_rating)]
    /\ UNCHANGED <<compat, finder, suggest, parsed, contrast, otherVars>>

NextPalette ==
    GenerateAccessibility \/ GenerateTriadic \/ GenerateSplitComplementary \/ GenerateTetradic

SpecPalette == InitPalette /\ [][NextPalette]_vars

----------------------------------------------------------------------------
(* Properties of the palette constructors *)

\* the variants a constructor generates, the primary included
StatedVariants(name, primary) ==
    CASE name = "Complementary" -> <<primary, _rotate_hue(primary, 180)>>
      [] name = "Triadic" ->
            <<primary, _rotate_hue(primary, 120), _rotate_hue(primary, 240)>>
      [] name = "Split-Complementary" ->
            <<primary, _rotate_hue(_rotate_hue(primary, 180), 30),
              _rotate_hue(_rotate_hue(primary, 180), -30)>>
      [] name = "Tetradic" ->
            <<primary, _rotate_hue(primary, 90), _rotate_hue(primary, 180),
              _rotate_hue(primary, 270)>>

HslLightness(c) == rgb_to_hsl(hex_to_rgb(c))[3]

\* C15: the background of a palette is one of the generated variants and no
\* variant has a strictly higher HSL lightness; text, contrast ratio and
\* rating are those of _find_accessible_text for that background.
C15_BackgroundIsLightestVariant ==
    palette.pc = "done" =>
        LET r == palette.result
            variants == StatedVariants(r.name, palette.primary)
            searched == _find_accessible_text(r.background, palette.target_rating,
                                              DEFAULT_MAX_ITERATIONS)
        IN /\ r.kind = "return"
           /\ \E k \in 1..Len(variants) : r.background = variants[k]
           /\ \A k \in 1..Len(variants) :
                ~(HslLightness(variants[k]) > HslLightness(r.background))
           /\ r.text = searched.color
           /\ r.contrast_ratio = searched.ratio
           /\ r.wcag_rating = searched.rating

\* a complementary palette whose background is the rotated colour, not the primary
C15_Witness ==
    /\ palette.pc = "done"
    /\ palette.result.name = "Complementary"
    /\ palette.result.background # palette.primary
    /\ palette.result.background = palette.result.secondary
    /\ palette.result.text = BLACK

Distinct(colors) == \A i, j \in 1..Len(colors) : i # j => colors[i] # colors[j]

\* what the claim says of primary, secondary and accent of a tetradic palette
TetradicRoles(r, variants) ==
    LET at == CHOOSE i \in 1..4 : variants[i] = r.background
                                  /\ \A j \in 1..(i - 1) : variants[j] # r.background
        kept == SelectSeq(<<1, 2, 3, 4>>, LAMBDA i : i # at)
    IN /\ r.primary = variants[kept[1]]
       /\ r.secondary = variants[kept[2]]
       /\ r.accent = IF variants[4] = r.background THEN variants[3] ELSE variants[4]

\* C16 (as claimed): in a tetradic palette the background equals none of
\* primary, secondary and accent, for any valid primary; primary and secondary
\* are the first two variants left after the background is removed and accent
\* is the +270 variant unless that is the background, then the +180 variant.
C16_BackgroundExcluded ==
    (palette.pc = "done" /\ palette.result.name = "Tetradic") =>
        LET r == palette.result IN
        /\ r.background \notin {r.primary, r.secondary, r.accent}
        /\ TetradicRoles(r, StatedVariants("Tetradic", palette.primary))

\* C16 (amended): the background equals none of primary, secondary and accent
\* when the four variants are pairwise different; the rule for primary,
\* secondary and accent holds for every primary.
C16_BackgroundExcludedWhenDistinct ==
    (palette.pc = "done" /\ palette.result.name = "Tetradic") =>
        LET r == palette.result
            variants == StatedVariants("Tetradic", palette.primary)
        IN /\ Distinct(variants) => r.background \notin {r.primary, r.secondary, r.accent}
           /\ TetradicRoles(r, variants)

\* a tetradic palette of four different variants: the background is in no role
C16_Witness ==
    /\ palette.pc = "done"
    /\ palette.result.name = "Tetradic"
    /\ Distinct(StatedVariants("Tetradic", palette.primary))
    /\ palette.result.background = palette.primary
    /\ palette.result.primary = _rotate_hue(palette.primary, 90)
    /\ palette.result.accent = _rotate_hue(palette.primary, 270)

\* C17 (as claimed): generate_accessibility_palette with the target "AAA"
\* returns the rating "AAA" and a contrast ratio of at least 7.0.
C17_AAATargetGivesAAA ==
    (palette.pc = "done" /\ palette.result.name = "Complementary"
                         /\ palette.target_rating = "AAA") =>
        /\ palette.result.wcag_rating = "AAA"
        /\ palette.result.contrast_ratio >= 7000

\* C17 (amended): with the target "AAA" the text is black or white, whichever
\* has the higher contrast against the background; the rating is "AAA", with
\* a ratio of at least 7.0, exactly when that contrast reaches 7.0, and "AA"
\* otherwise.
C17_AAAWhenBlackOrWhiteReaches7 ==
    (palette.pc = "done" /\ palette.result.name = "Complementary"
                         /\ palette.target_rating = "AAA") =>
        LET r == palette.result
            best == Max2(get_contrast_ratio(BLACK, r.background),
                         get_contrast_ratio(WHITE, r.background))
        IN /\ r.text \in {BLACK, WHITE}
           /\ r.contrast_ratio = best
           /\ r.contrast_ratio = get_contrast_ratio(r.text, r.background)
           /\ r.wcag_rating = "AAA" <=> best >= 7000
           /\ r.wcag_rating = "AAA" => r.contrast_ratio >= 7000
           /\ best < 7000 => r.wcag_rating = "AA"

\* a complementary palette for the target "AAA" that came back rated "AA"
C17_Witness ==
    /\ palette.pc = "done"
    /\ palette.result.name = "Complementary"
    /\ palette.target_rating = "AAA"
    /\ palette.result.wcag_rating = "AA"
    /\ palette.result.contrast_ratio < 7000

----------------------------------------------------------------------------
(* The functions that call validate_hex_color on their colour arguments,    *)
(* called once with strings of any shape.                                   *)

UncheckedColors ==
    { <<HASH, 3, 4, 9, 8, 13, 11>>,                      \* "#3498DB"
      <<HASH, 15, 15, 15>>,                              \* "#FFF"
      <<HASH, LOWER + 10, LOWER + 11, LOWER + 12>>,      \* "#abc"
      <<15, 15, 0, 0, 0, 0>>,                            \* "FF0000"
      <<HASH, 1, 2, 3, 4, 5>>,                           \* "#12345"
      <<HASH, LETTER_G, LETTER_G, 0, 0, 0, 0>>,          \* "#GG0000"
      <<HASH, MINUS, 15, 0, 0, 0, 0>>,                   \* "#-F0000"
      <<>>,                                              \* ""
      <<HASH, 15, 15, 0, 0, 0, 0, NEWLINE>>,             \* "#FF0000\n"
      <<HASH, 15, 15, 15, NEWLINE>> }                    \* "#FFF\n"

UncheckedLight == { WHITE, <<HASH, 15, 15, 15, NEWLINE>>, <<15, 15, 15>> }
UncheckedDark == { Gray(1, 2), <<HASH, 1, 2, 1, 2, 1, 2, NEWLINE>>, <<HASH, 1, 2>> }

InitValidation ==
    /\ \/ /\ compat \in [pc : {"call"}, text_color : UncheckedColors,
                         light_background : UncheckedLight,
                         dark_background : UncheckedDark,
                         min_rating : {"AA"}, result : {NoResult}]
          /\ finder = NotCalled /\ suggest = NotCalled /\ palette = NotCalled
       \/ /\ finder \in [pc : {"validate"}, background_light : UncheckedColors,
                         background_dark : UncheckedDark, target_rating : {"AA"},
                         i : {0}, tried : {<<>>}, result : {<<>>}, exc : {"none"}]
          /\ compat = NotCalled /\ suggest = NotCalled /\ palette = NotCalled
       \/ /\ suggest \in [pc : {"validate"}, text_color : UncheckedColors,
                          light_background : UncheckedLight,
                          dark_background : UncheckedDark,
                          target_rating : {"AA"}, max_iterations : {0, 1},
                          pos : {0}, evaluated : {<<>>}, suggestions : {<<>>},
                          exc : {"none"}]
          /\ compat = NotCalled /\ finder = NotCalled /\ palette = NotCalled
       \/ /\ palette \in [pc : {"call"}, primary : UncheckedColors,
                          target_rating : {"AA"}, result : {NoResult}]
          /\ compat = NotCalled /\ finder = NotCalled /\ suggest = NotCalled
    /\ parsed = NotCalled /\ contrast = NotCalled
    /\ OthersIdle

NextValidation == NextCompat \/ NextFinder \/ NextSuggest \/ NextPalette

SpecValidation == InitValidation /\ [][NextValidation]_vars

\* '#' followed by exactly 3 or exactly 6 hexadecimal digits
StatedValidColour(c) ==
    /\ Len(c) \in {4, 7}
    /\ c[1] = HASH
    /\ \A k \in 2..Len(c) : c[k] \in HexDigits

\* what is stated of a finished call with the colour arguments args that ended
\* with the exception exc ("none" when it returned)
StatedGuard(args, exc) ==
    /\ (\E a \in args : ~StatedValidColour(a)) => exc = "ValidationError"
    /\ (\A a \in args : validate_hex_color(a)) => exc \notin {"ValueError"}

ExceptionOf(result) == IF result.kind = "raise" THEN result.exc ELSE "none"

\* C18: each of the seven functions ends with ValidationError, raised before
\* any conversion or contrast computation, whenever one of its colour
\* arguments is not '#' followed by exactly 3 or exactly 6 hexadecimal
\* digits, and with no other kind of error when its arguments pass validation.
C18_ValidationErrorAndNoOtherError ==
    /\ compat.pc = "done" =>
          StatedGuard({compat.text_color, compat.light_background,
                       compat.dark_background}, ExceptionOf(compat.result))
    /\ finder.pc \in {"done", "raised"} =>
          /\ StatedGuard({finder.background_light, finder.background_dark}, finder.exc)
          /\ finder.exc = "ValidationError" => finder.i = 0
    /\ suggest.pc \in {"done", "raised"} =>
          /\ StatedGuard({suggest.text_color, suggest.light_background,
                          suggest.dark_background}, suggest.exc)
          /\ suggest.exc = "ValidationError" => suggest.pos = 0
    /\ palette.pc = "done" =>
          StatedGuard({palette.primary}, ExceptionOf(palette.result))

----------------------------------------------------------------------------
(* hex_to_rgb called once with a string of any shape *)

\* the most '#' characters a string starts with
MaxHashes == 2

HexAlphabet == {0, 9, 10, 15, LOWER + 10, LOWER + 15, PLUS, MINUS, SPACE, LETTER_G}

\* two characters that one channel is read from
ChannelPairs ==
    { <<15, 15>>, <<0, 10>>, <<LOWER + 10, LOWER + 11>>, <<LOWER + 15, 15>>,
      <<MINUS, 15>>, <<PLUS, 1>>, <<SPACE, 15>>, <<15, SPACE>>,
      <<LETTER_G, 0>>, <<MINUS, MINUS>> }

Hashes(n) == [k \in 1..n |-> HASH]

HexBodies ==
    [1..3 -> HexAlphabet]
    \cup { p \o q \o r : p \in ChannelPairs, q \in ChannelPairs, r \in ChannelPairs }
    \cup { <<>>, <<15>>, <<15, 15>>, <<1, 2, 3, 4>>, <<1, 2, 3, 4, 5>>,
           <<1, 2, 3, 4, 5, 6, 7>> }

HexInputs == { Hashes(n) \o body : n \in 0..MaxHashes, body \in HexBodies }

InitHex ==
    /\ parsed \in [pc : {"call"}, hex_color : HexInputs, result : {<<>>}]
    /\ compat = NotCalled /\ finder = NotCalled /\ suggest = NotCalled
    /\ palette = NotCalled /\ contrast = NotCalled
    /\ OthersIdle

ParseHex ==
    /\ parsed.pc = "call"
    /\ parsed' = [parsed EXCEPT !.pc = "done", !.result = hex_to_rgb(parsed.hex_color)]
    /\ UNCHANGED <<compat, finder, suggest, palette, contrast, otherVars>>

NextHex == ParseHex

SpecHex == InitHex /\ [][NextHex]_vars

\* the string with every lower-case digit replaced by its upper-case digit
UpperCased(str) ==
    [k \in 1..Len(str) |-> IF str[k] \in LowerDigits THEN str[k] - LOWER ELSE str[k]]

\* the 6-digit form of a 3-digit body, each digit doubled
Doubled(body) == <<body[1], body[1], body[2], body[2], body[3], body[3]>>

\* C19: hex_to_rgb raises whenever, with the leading '#' stripped, the length
\* is not 3 or 6 or a character is no hexadecimal digit; an accepted 3-digit
\* form gives the triple of its doubled 6-digit form, the triple does not
\* depend on letter case, and every channel is an integer in 0..255.
C19_RaisesOnInvalidChannelsInRange ==
    parsed.pc = "done" =>
        LET body == lstrip_hash(parsed.hex_color)
            r == parsed.result
        IN /\ (Len(body) \notin {3, 6} \/ \E k \in 1..Len(body) : body[k] \notin HexDigits)
                 => r = ValueError
           /\ r # ValueError =>
                 /\ Len(body) = 3 => r = hex_to_rgb(Doubled(body))
                 /\ r = hex_to_rgb(UpperCased(parsed.hex_color))
                 /\ \A k \in 1..3 : r[k] \in 0..255

----------------------------------------------------------------------------
(* get_contrast_ratio called once with two valid colours *)

\* the digit a channel is written with, twice in the 6-digit form
ChannelDigits == {0, 8, 15}

ContrastColors ==
    { <<HASH, r, r, g, g, b, b>> : r \in ChannelDigits, g \in ChannelDigits,
                                   b \in ChannelDigits }
    \cup { <<HASH, 15, 15, 15>>, <<HASH, 0, 0, 0>>, <<HASH, 3, 4, 9, 8, 13, 11>>,
           <<HASH, LOWER + 15, LOWER + 15, LOWER + 15, LOWER + 15, LOWER + 15, LOWER + 15>> }

InitContrast ==
    /\ contrast \in [pc : {"call"}, color1 : ContrastColors, color2 : ContrastColors,
                     result : {0}]
    /\ compat = NotCalled /\ finder = NotCalled /\ suggest = NotCalled
    /\ palette = NotCalled /\ parsed = NotCalled
    /\ OthersIdle

ComputeContrast ==
    /\ contrast.pc = "call"
    /\ contrast' = [contrast EXCEPT
            !.pc = "done",
            !.result = get_contrast_ratio(contrast.color1, contrast.color2)]
    /\ UNCHANGED <<compat, finder, suggest, palette, parsed, otherVars>>

NextContrast == ComputeContrast

SpecContrast == InitContrast /\ [][NextContrast]_vars

\* the relative luminance of a colour, in 1/200000
StatedLuminance(c) == calculate_luminance(hex_to_rgb(c))

\* (L_lighter + 0.05) / (L_darker + 0.05), in thousandths
StatedRatio(a, b) ==
    LET la == StatedLuminance(a)
        lb == StatedLuminance(b)
    IN IF la >= lb THEN ((la + 10000) * 1000) \div (lb + 10000)
                   ELSE ((lb + 10000) * 1000) \div (la + 10000)

\* C20: the contrast ratio of two valid colours is
\* (L_lighter + 0.05) / (L_darker + 0.05), lies in [1, 21], does not depend on
\* the order of the arguments, is 1 for a colour against itself and is 21,
\* its maximum, for black against white.
C20_RatioBoundedSymmetric ==
    contrast.pc = "done" =>
        LET a == contrast.color1
            b == contrast.color2
            r == contrast.result
        IN /\ r = StatedRatio(a, b)
           /\ r >= 1000 /\ r <= 21000
           /\ r = get_contrast_ratio(b, a)
           /\ hex_to_rgb(a) = hex_to_rgb(b) => r = 1000
           /\ (hex_to_rgb(a) = <<0, 0, 0>> /\ hex_to_rgb(b) = <<255, 255, 255>>) => r = 21000
           /\ (hex_to_rgb(a) = <<255, 255, 255>> /\ hex_to_rgb(b) = <<0, 0, 0>>) => r = 21000
           /\ r <= get_contrast_ratio(BLACK, WHITE)

\* black, the darker colour, given first against white: the ratio is 21
C20_Witness ==
    /\ contrast.pc = "done"
    /\ contrast.color1 = BLACK
    /\ contrast.color2 = WHITE
    /\ contrast.result = 21000

----------------------------------------------------------------------------
(* analyzers/harmonies.py: get_complementary_color called once *)

\* the complement by hue rotation in place of the channel inversion
get_complementary_color_rotated(hex_color) == _rotate_hue(hex_color, 180)

get_complementary_color(hex_color) ==
    Only({ IF rgb = ValueError THEN ValueError
           ELSE FormatHex(<<255 - rgb[1], 255 - rgb[2], 255 - rgb[3]>>)
           : rgb \in {hex_to_rgb(hex_color)} })

\* the digit a channel of an argument is written with
HarmonyDigits == {0, 3, 8, 12, 15}

RED == <<HASH, 15, 15, 0, 0, 0, 0>>
GREEN == <<HASH, 0, 0, 15, 15, 0, 0>>
BLUE == <<HASH, 0, 0, 0, 0, 15, 15>>

HarmonyColors ==
    { <<HASH, r, r, g, g, b, b>> : r \in HarmonyDigits, g \in HarmonyDigits,
                                   b \in HarmonyDigits }
    \cup { <<HASH, LOWER + 15, 0, 0>>, <<HASH, 3, 4, 9, 8, 13, 11>>,
           <<HASH, LOWER + 10, LOWER + 11, LOWER + 12, LOWER + 13, LOWER + 14, LOWER + 15>>,
           <<HASH, 1, 2, 3>> }

InitHarmony ==
    /\ harmony \in [pc : {"call"}, hex_color : HarmonyColors, result : {<<>>}]
    /\ roundtrip = NotCalled /\ shares = NotCalled /\ analysis = NotCalled
    /\ cache = NotCalled /\ xxe = NotCalled /\ pfile = NotCalled
    /\ brighten = NotCalled /\ svgkeys = NotCalled
    /\ EarlierIdle

Complement ==
    /\ harmony.pc = "call"
    /\ harmony' = [harmony EXCEPT !.pc = "done",
                                  !.result = get_complementary_color(harmony.hex_color)]
    /\ UNCHANGED <<roundtrip, shares, analysis, cache, xxe, pfile, brighten, svgkeys,
                   earlierVars>>

NextHarmony == Complement

SpecHarmony == InitHarmony /\ [][NextHarmony]_vars

\* red, green and blue at full saturation
PrimaryHues == {RED, GREEN, BLUE}

\* C21: the complementary colour is '#' and six upper-case digits whose
\* channels are 255 minus the channels of the argument (#FF0000 gives #00FFFF,
\* #000000 gives #FFFFFF); for the primary hues it is the hue rotated by 180
\* degrees.
C21_ComplementInvertsChannels ==
    harmony.pc = "done" =>
        LET rgb == hex_to_rgb(harmony.hex_color)
            r == harmony.result
        IN /\ Len(r) = 7 /\ r[1] = HASH
           /\ \A k \in 2..7 : r[k] \in UpperDigits
           /\ hex_to_rgb(r) = <<255 - rgb[1], 255 - rgb[2], 255 - rgb[3]>>
           /\ harmony.hex_color = RED => r = <<HASH, 0, 0, 15, 15, 15, 15>>
           /\ harmony.hex_color = BLACK => r = WHITE
           /\ harmony.hex_color \in PrimaryHues => r = _rotate_hue(harmony.hex_color, 180)

\* the complement of black is white, which no hue rotation gives
C21_Witness ==
    /\ harmony.pc = "done"
    /\ harmony.hex_color = BLACK
    /\ harmony.result = WHITE
    /\ _rotate_hue(BLACK, 180) = BLACK

----------------------------------------------------------------------------
(* converters/hsl_converters.py: rgb_to_hsl, then hsl_to_rgb on its result *)

\* the values a channel of the argument takes
ChannelLevels == {0, 1, 2, 51, 64, 127, 128, 129, 200, 254, 255}

RgbTriples == ChannelLevels \X ChannelLevels \X ChannelLevels

InitRoundTrip ==
    /\ roundtrip \in [pc : {"call"}, rgb : RgbTriples, hsl : {<<>>}, back : {<<>>}]
    /\ harmony = NotCalled /\ shares = NotCalled /\ analysis = NotCalled
    /\ cache = NotCalled /\ xxe = NotCalled /\ pfile = NotCalled
    /\ brighten = NotCalled /\ svgkeys = NotCalled
    /\ EarlierIdle

ToHsl ==
    /\ roundtrip.pc = "call"
    /\ roundtrip' = [roundtrip EXCEPT !.pc = "hsl", !.hsl = rgb_to_hsl(roundtrip.rgb)]
    /\ UNCHANGED <<harmony, shares, analysis, cache, xxe, pfile, brighten, svgkeys,
                   earlierVars>>

ToRgb ==
    /\ roundtrip.pc = "hsl"
    /\ roundtrip' = [roundtrip EXCEPT
            !.pc = "done",
            !.back = hsl_to_rgb(roundtrip.hsl[1], roundtrip.hsl[2], roundtrip.hsl[3])]
    /\ UNCHANGED <<harmony, shares, analysis, cache, xxe, pfile, brighten, svgkeys,
                   earlierVars>>

NextRoundTrip == ToHsl \/ ToRgb

SpecRoundTrip == InitRoundTrip /\ [][NextRoundTrip]_vars

Distance(a, b) == IF a >= b THEN a - b ELSE b - a

\* C22: the hue of rgb_to_hsl(c) is in [0, 360) and its saturation and
\* lightness are in [0, 100]; hsl_to_rgb of it differs from c by at most 1
\* in each channel.
C22_RoundTripWithinOne ==
    /\ roundtrip.pc \in {"hsl", "done"} =>
          /\ roundtrip.hsl[1] \in 0..3599
          /\ roundtrip.hsl[2] \in 0..1000
          /\ roundtrip.hsl[3] \in 0..1000
    /\ roundtrip.pc = "done" =>
          \A k \in 1..3 : Distance(roundtrip.back[k], roundtrip.rgb[k]) <= 1

\* (255, 128, 64) goes to hue 20.1, saturation 100.0, lightness 62.5 and back
C22_Witness ==
    /\ roundtrip.pc = "done"
    /\ roundtrip.rgb = <<255, 128, 64>>
    /\ roundtrip.hsl = <<201, 1000, 625>>
    /\ roundtrip.back = <<255, 128, 64>>

----------------------------------------------------------------------------
(* extractors: the frequency map of one extraction.  A share is the pair    *)
(* <<count * 100, total>>, the percentage count / total * 100 as a quotient. *)

\* the most occurrences one extraction finds
MaxOccurrences == 4

\* ImageProcessing.MAX_COLORS, the default of max_colors
MAX_COLORS == 1000

\* Counter(colors): the count of every colour, in the order of first occurrence
RECURSIVE Counter(_)
Counter(colors) ==
    IF colors = <<>> THEN <<>>
    ELSE LET rest == Counter(SubSeq(colors, 1, Len(colors) - 1))
             last == colors[Len(colors)]
         IN IF \E k \in DOMAIN rest : rest[k][1] = last
            THEN [k \in DOMAIN rest |->
                    IF rest[k][1] = last THEN <<last, rest[k][2] + 1>> ELSE rest[k]]
            ELSE Append(rest, <<last, 1>>)

\* colors.most_common(n) that keeps every colour
most_common_untruncated(counts, n) == sorted_by_freq_reverse(counts)

\* colors.most_common(n): the n highest counts, equal counts in the order of
\* first occurrence
most_common(counts, n) ==
    SubSeq(sorted_by_freq_reverse(counts), 1, Min2(n, Len(counts)))

\* {color: (count / total) * 100 for color, count in items}
Frequencies(items, total) ==
    [k \in DOMAIN items |-> <<items[k][1], <<items[k][2] * 100, total>>>>]

\* extract_hex_colors_from_svg from the matches of the pattern, lines 60-72
extract_hex_colors_from_svg_matches(colors) ==
    IF colors = <<>> THEN <<>>
    ELSE Frequencies(Counter(colors), Len(colors))

\* extract_colors_from_svg_safe from the matches in the colour attributes,
\* lines 129-145; without any, the regex scan of the text with text_matches
extract_colors_from_svg_safe_matches(colors, text_matches, max_colors_) ==
    IF colors = <<>> THEN extract_hex_colors_from_svg_matches(text_matches)
    ELSE Frequencies(most_common(Counter(colors), max_colors_), Len(colors))

\* extract_colors_from_image from the pixels, lines 70-89
extract_colors_from_image_pixels(pixels, max_colors_) ==
    IF pixels = <<>> THEN <<>>
    ELSE LET common == most_common(Counter(pixels), max_colors_)
         IN Frequencies([k \in DOMAIN common |-> <<FormatHex(common[k][1]), common[k][2]>>],
                        Len(pixels))

ShareColors == {RED, GREEN, BLUE}

Occurrences == UNION { [1..n -> ShareColors] : n \in 0..MaxOccurrences }

InitShares ==
    /\ shares \in [pc : {"call"}, occurrences : Occurrences,
                   max_colors : {1, 2, MAX_COLORS}, path : {"none"}, result : {<<>>}]
    /\ harmony = NotCalled /\ roundtrip = NotCalled /\ analysis = NotCalled
    /\ cache = NotCalled /\ xxe = NotCalled /\ pfile = NotCalled
    /\ brighten = NotCalled /\ svgkeys = NotCalled
    /\ EarlierIdle

\* the regex scan finds the occurrences in the text
SharesByRegex ==
    /\ shares.pc = "call"
    /\ shares' = [shares EXCEPT !.pc = "done", !.path = "regex",
            !.result = extract_hex_colors_from_svg_matches(shares.occurrences)]
    /\ UNCHANGED <<harmony, roundtrip, analysis, cache, xxe, pfile, brighten, svgkeys,
                   earlierVars>>

\* the attribute loop finds the occurrences; the text holds the same ones
SharesByXml ==
    /\ shares.pc = "call"
    /\ shares' = [shares EXCEPT !.pc = "done", !.path = "xml",
            !.result = extract_colors_from_svg_safe_matches(shares.occurrences,
                            shares.occurrences, shares.max_colors)]
    /\ UNCHANGED <<harmony, roundtrip, analysis, cache, xxe, pfile, brighten, svgkeys,
                   earlierVars>>

\* the occurrences are the pixels of the image
SharesOfImage ==
    /\ shares.pc = "call"
    /\ shares' = [shares EXCEPT !.pc = "done", !.path = "image",
            !.result = extract_colors_from_image_pixels(
                            [k \in DOMAIN shares.occurrences |->
                                hex_to_rgb(shares.occurrences[k])],
                            shares.max_colors)]
    /\ UNCHANGED <<harmony, roundtrip, analysis, cache, xxe, pfile, brighten, svgkeys,
                   earlierVars>>

NextShares == SharesByRegex \/ SharesByXml \/ SharesOfImage

SpecShares == InitShares /\ [][NextShares]_vars

Occurs(colors, c) == Cardinality({k \in DOMAIN colors : colors[k] = c})

DistinctColours(colors) == {colors[k] : k \in DOMAIN colors}

RECURSIVE SumOfCounts(_)
SumOfCounts(result) ==
    IF result = <<>> THEN 0
    ELSE result[1][2][1] + SumOfCounts(Tail(result))

\* every value of the map is count / total * 100 for its colour
ValuesAreShares ==
    \A k \in DOMAIN shares.result :
        /\ shares.result[k][2][1] = 100 * Occurs(shares.occurrences, shares.result[k][1])
        /\ shares.result[k][2][2] = Len(shares.occurrences)

\* the values add up to 100: the counts times 100 add up to 100 times the total
SumIsHundred == SumOfCounts(shares.result) = 100 * Len(shares.occurrences)

\* C23 (as stated): in the map of an extraction that found colours every
\* value is count / total * 100 and the values sum to 100.
C23_SharesSumToHundred ==
    (shares.pc = "done" /\ shares.occurrences # <<>>) =>
        ValuesAreShares /\ SumIsHundred

\* C23 (amended): every value is count / total * 100 with the total over all
\* occurrences; the regex scan returns every colour, the attribute count and
\* the image histogram the max_colors most frequent ones; the values sum to
\* 100 exactly when no colour was left out, and to less otherwise; without
\* occurrences the map is empty.
C23_SharesOfMostCommon ==
    shares.pc = "done" =>
        LET distinct == Cardinality(DistinctColours(shares.occurrences))
            kept == IF shares.path = "regex" THEN distinct
                    ELSE Min2(distinct, shares.max_colors)
        IN /\ ValuesAreShares
           /\ Len(shares.result) = kept
           /\ \A i, j \in DOMAIN shares.result :
                 i # j => shares.result[i][1] # shares.result[j][1]
           /\ \A c \in DistinctColours(shares.occurrences) :
                 (\A k \in DOMAIN shares.result : shares.result[k][1] # c)
                    => \A k \in DOMAIN shares.result :
                          shares.result[k][2][1] >= 100 * Occurs(shares.occurrences, c)
           /\ (shares.occurrences # <<>> /\ kept = distinct) => SumIsHundred
           /\ kept < distinct =>
                 SumOfCounts(shares.result) < 100 * Len(shares.occurrences)

\* two occurrences of #FF0000 and one of #00FF00 found by the regex scan:
\* 66.67 and 33.33 after rounding to two decimals
C23_Witness ==
    /\ shares.pc = "done"
    /\ shares.path = "regex"
    /\ shares.occurrences = <<RED, RED, GREEN>>
    /\ shares.result = << <<RED, <<200, 3>>>>, <<GREEN, <<100, 3>>>> >>
    /\ RoundDiv(200 * 100, 3) = 6667
    /\ RoundDiv(100 * 100, 3) = 3333

----------------------------------------------------------------------------
(* analyzers/accessibility.py: analyze_contrast_with_backgrounds *)

\* get_wcag_rating called with its argument under a keyword: the parameter is
\* named contrast_ratio, any other keyword is a TypeError
get_wcag_rating_keyword(keyword, value) ==
    IF keyword = "contrast_ratio" THEN [kind |-> "return", rating |-> get_wcag_rating(value)]
    ELSE Raised("TypeError")

\* lines 78-91
recommendation_for(color, bg_color, ratio) ==
    IF bg_color = WHITE
    THEN IF ratio > get_contrast_ratio(color, BLACK) THEN "White text on color" ELSE "None"
    ELSE IF bg_color = BLACK
    THEN IF ratio > get_contrast_ratio(color, WHITE) THEN "Black text on color" ELSE "None"
    ELSE "None"

\* results[bg_color] = entry: the entry of a key that is there is replaced
dict_set(d, key, entry) ==
    IF \E k \in DOMAIN d : d[k][1] = key
    THEN [k \in DOMAIN d |-> IF d[k][1] = key THEN <<key, entry>> ELSE d[k]]
    ELSE Append(d, <<key, entry>>)

AnalysisColors == {RED, GREEN, BLUE, BLACK, WHITE, Gray(8, 0), <<HASH, 3, 4, 9, 8, 13, 11>>,
                   <<HASH, 15, 15, 15>>}

BackgroundLists ==
    { <<>>, <<WHITE>>, <<BLACK>>, <<WHITE, BLACK>>, <<Gray(8, 0)>>,
      <<Gray(1, 2), WHITE>>, <<WHITE, WHITE>>, <<BLACK, Gray(8, 0), WHITE>> }

InitAnalysis ==
    /\ \/ analysis \in [pc : {"call"}, color : AnalysisColors, given : {TRUE},
                        backgrounds : BackgroundLists, i : {0}, results : {<<>>},
                        exc : {"none"}]
       \/ analysis \in [pc : {"call"}, color : AnalysisColors, given : {FALSE},
                        backgrounds : {<<>>}, i : {0}, results : {<<>>},
                        exc : {"none"}]
    /\ harmony = NotCalled /\ roundtrip = NotCalled /\ shares = NotCalled
    /\ cache = NotCalled /\ xxe = NotCalled /\ pfile = NotCalled
    /\ brighten = NotCalled /\ svgkeys = NotCalled
    /\ EarlierIdle

\* lines 68-71: the default of backgrounds
AnalysisStart ==
    /\ analysis.pc = "call"
    /\ analysis' = [analysis EXCEPT
            !.pc = "loop", !.i = 1,
            !.backgrounds = IF analysis.given THEN @ ELSE <<WHITE, BLACK>>]
    /\ UNCHANGED <<harmony, roundtrip, shares, cache, xxe, pfile, brighten, svgkeys,
                   earlierVars>>

\* one iteration of `for bg_color in backgrounds`, lines 73-97
AnalysisStep ==
    /\ analysis.pc = "loop"
    /\ analysis.i <= Len(analysis.backgrounds)
    /\ \E bg_color \in {analysis.backgrounds[analysis.i]} :
          IF hex_to_rgb(analysis.color) = ValueError \/ hex_to_rgb(bg_color) = ValueError
          THEN analysis' = [analysis EXCEPT !.pc = "raised", !.exc = "ValueError"]
          ELSE \E ratio \in {get_contrast_ratio(analysis.color, bg_color)} :
               \E rating \in {get_wcag_rating_keyword("rating", ratio)} :
                  IF rating.kind = "raise"
                  THEN analysis' = [analysis EXCEPT !.pc = "raised", !.exc = rating.exc]
                  ELSE analysis' = [analysis EXCEPT
                          !.i = @ + 1,
                          !.results = dict_set(@, bg_color,
                              [contrast_ratio |-> round2(ratio),
                               rating |-> rating.rating,
                               recommendation |->
                                  recommendation_for(analysis.color, bg_color, ratio)])]
    /\ UNCHANGED <<harmony, roundtrip, shares, cache, xxe, pfile, brighten, svgkeys,
                   earlierVars>>

\* the list is exhausted: line 102
AnalysisReturn ==
    /\ analysis.pc = "loop"
    /\ analysis.i > Len(analysis.backgrounds)
    /\ analysis' = [analysis EXCEPT !.pc = "done"]
    /\ UNCHANGED <<harmony, roundtrip, shares, cache, xxe, pfile, brighten, svgkeys,
                   earlierVars>>

NextAnalysis == AnalysisStart \/ AnalysisStep \/ AnalysisReturn

SpecAnalysis == InitAnalysis /\ [][NextAnalysis]_vars

\* C24: for a valid colour the call does not fail and returns one entry per
\* background of the list (white and black when the list is omitted), with
\* the contrast ratio rounded to 2 decimals, its WCAG rating and a
\* recommendation.
C24_OneEntryPerBackground ==
    analysis.pc \in {"done", "raised"} =>
        /\ analysis.pc = "done"
        /\ analysis.exc = "none"
        /\ ~analysis.given => analysis.backgrounds = <<WHITE, BLACK>>
        /\ \A k \in DOMAIN analysis.backgrounds :
              \E j \in DOMAIN analysis.results :
                 /\ analysis.results[j][1] = analysis.backgrounds[k]
                 /\ analysis.results[j][2].contrast_ratio =
                       round2(get_contrast_ratio(analysis.color, analysis.backgrounds[k]))
                 /\ analysis.results[j][2].rating =
                       get_wcag_rating(get_contrast_ratio(analysis.color,
                                                          analysis.backgrounds[k]))
        /\ \A j \in DOMAIN analysis.results :
              \E k \in DOMAIN analysis.backgrounds :
                 analysis.results[j][1] = analysis.backgrounds[k]

----------------------------------------------------------------------------
(* converters/hsl_converters.py: the lru_cache around rgb_to_hsl *)

\* The capacity of the cache. The decorator of the source gives 10000; the
\* model runs the same cache with a small capacity, so that a full cache
\* and the eviction of the least recently used entry happen.
maxsize == 2
DECLARED_MAXSIZE == 10000
MaxCalls == 4

make_key_red_only(rgb) == <<rgb[1], 0, 0>>

\* the key of a call with one positional argument is the argument itself

make_key(rgb) == rgb

\* the position of `key` in the cache (entries are <<key, value>>, least
\* recently used first), 0 when it is not cached
cache_index(entries, key) ==
    IF \E k \in DOMAIN entries : entries[k][1] = key
    THEN CHOOSE k \in DOMAIN entries : entries[k][1] = key
    ELSE 0

without_entry(entries, k) ==
    SubSeq(entries, 1, k - 1) \o SubSeq(entries, k + 1, Len(entries))

\* one call through the wrapper: a hit moves the entry to the most recently
\* used end and returns its value; a miss computes rgb_to_hsl, stores the
\* result and, in a full cache, drops the least recently used entry
lru_cache_wrapper(entries, rgb) ==
    Only({ IF k > 0
           THEN [served |-> "hit", result |-> entries[k][2],
                 entries |-> Append(without_entry(entries, k), entries[k])]
           ELSE [served |-> "miss", result |-> rgb_to_hsl(rgb),
                 entries |-> IF Len(entries) >= maxsize
                             THEN Append(Tail(entries), <<make_key(rgb), rgb_to_hsl(rgb)>>)
                             ELSE Append(entries, <<make_key(rgb), rgb_to_hsl(rgb)>>)]
           : k \in {cache_index(entries, make_key(rgb))} })

CacheTriples == {<<255, 0, 0>>, <<255, 128, 64>>, <<0, 0, 0>>, <<52, 152, 219>>}

NoCall == [arg |-> <<>>, result |-> <<>>, served |-> "none", first |-> FALSE,
           repeat |-> FALSE]

\* a fresh process: the cache is empty, the counters are zero. `seen` (the
\* triples called since the last clear), `calls` and `last` are history.
InitCache ==
    /\ cache = [pc |-> "run", entries |-> <<>>, hits |-> 0, misses |-> 0,
                seen |-> {}, calls |-> 0, last |-> NoCall]
    /\ harmony = NotCalled /\ roundtrip = NotCalled /\ shares = NotCalled
    /\ analysis = NotCalled /\ xxe = NotCalled /\ pfile = NotCalled
    /\ brighten = NotCalled /\ svgkeys = NotCalled
    /\ EarlierIdle

\* rgb_to_hsl(rgb)
CacheCall ==
    /\ cache.pc = "run"
    /\ cache.calls < MaxCalls
    /\ \E rgb \in CacheTriples :
       \E r \in {lru_cache_wrapper(cache.entries, rgb)} :
          cache' = [cache EXCEPT
              !.entries = r.entries,
              !.hits = IF r.served = "hit" THEN @ + 1 ELSE @,
              !.misses = IF r.served = "miss" THEN @ + 1 ELSE @,
              !.seen = @ \cup {rgb},
              !.calls = @ + 1,
              !.last = [arg |-> rgb, result |-> r.result, served |-> r.served,
                        first |-> rgb \notin cache.seen,
                        repeat |-> cache.last.served # "none" /\ cache.last.arg = rgb]]
    /\ UNCHANGED <<harmony, roundtrip, shares, analysis, xxe, pfile, brighten, svgkeys,
                   earlierVars>>

\* rgb_to_hsl.cache_clear()
CacheClear ==
    /\ cache.pc = "run"
    /\ cache.calls < MaxCalls
    /\ cache' = [cache EXCEPT !.entries = <<>>, !.hits = 0, !.misses = 0,
                              !.seen = {}, !.calls = @ + 1, !.last = NoCall]
    /\ UNCHANGED <<harmony, roundtrip, shares, analysis, xxe, pfile, brighten, svgkeys,
                   earlierVars>>

NextCache == CacheCall \/ CacheClear

SpecCache == InitCache /\ [][NextCache]_vars

CachedKeys == { cache.entries[k][1] : k \in DOMAIN cache.entries }

\* C25: after any sequence of calls and clears a call returns the value of
\* the uncached computation for its argument, as a hit or as a miss; the
\* first call for a triple after a clear is a miss and an immediately
\* repeated call a hit; an entry is keyed by its triple and holds the value
\* of that triple as long as it is cached; every triple called since the
\* last clear is cached while they fit the capacity, and the cache never
\* holds more entries than its capacity, which is at most 10,000.
C25_CacheTransparent ==
    cache.pc = "run" =>
        /\ cache.last.served # "none" =>
              /\ cache.last.result = rgb_to_hsl(cache.last.arg)
              /\ cache.last.first => cache.last.served = "miss"
              /\ cache.last.repeat => cache.last.served = "hit"
              /\ cache.last.arg \in CachedKeys
        /\ \A k \in DOMAIN cache.entries :
              /\ cache.entries[k][1] \in CacheTriples
              /\ cache.entries[k][2] = rgb_to_hsl(cache.entries[k][1])
              /\ \A j \in DOMAIN cache.entries : cache.entries[j][1] = cache.entries[k][1] => j = k
        /\ CachedKeys \subseteq cache.seen
        /\ Cardinality(cache.seen) <= maxsize => CachedKeys = cache.seen
        /\ Len(cache.entries) <= maxsize
        /\ maxsize <= DECLARED_MAXSIZE
        /\ cache.hits + cache.misses <= cache.calls

\* a call served from a full cache after another triple was evicted
C25_Witness ==
    /\ cache.pc = "run"
    /\ cache.last.served = "hit"
    /\ cache.last.arg = <<255, 128, 64>>
    /\ cache.last.result = <<201, 1000, 625>>
    /\ Len(cache.entries) = maxsize
    /\ Cardinality(cache.seen) > maxsize

----------------------------------------------------------------------------
(* extractors/svg_extractor.py: an SVG whose DOCTYPE declares an external
   entity, <!DOCTYPE svg [ <!ENTITY xxe SYSTEM "file:..."> ]> *)

\* What the parser puts in the place of a reference to the external entity
\* whose file is `referenced`. Neither parser reads the file.
entity_replacement_resolved(referenced) ==
    IF referenced.exists THEN [kind |-> "text", colors |-> referenced.colors]
    ELSE [kind |-> "undefined", colors |-> <<>>]

entity_replacement(referenced) == [kind |-> "undefined", colors |-> <<>>]

\* one place of the document: nothing, a colour written there, or &xxe;
Absent == [kind |-> "absent", color |-> <<>>]
Literal(c) == [kind |-> "literal", color |-> c]
EntityRef == [kind |-> "entity", color |-> <<>>]

\* the document: <svg><rect fill=...>...text...</rect></svg> after the DOCTYPE
XxeDocuments ==
    [fill : {Absent, Literal(RED), EntityRef},
     content : {Absent, Literal(GREEN), EntityRef}]

\* the file the entity names: missing, or holding some text with colours
ReferencedFiles ==
    { [exists |-> FALSE, colors |-> <<>>], [exists |-> TRUE, colors |-> <<>>],
      [exists |-> TRUE, colors |-> <<BLUE>>], [exists |-> TRUE, colors |-> <<RED, BLUE>>] }

Parsers == {"defusedxml", "xml.etree"}

ColorsOf(item) == IF item.kind = "literal" THEN <<item.color>> ELSE <<>>

\* HEX_COLOR_PATTERN.findall(svg_content): the text of the file itself
svg_content_matches(doc) == ColorsOf(doc.fill) \o ColorsOf(doc.content)

\* ET.parse(str(svg_path)), lines 103-108. defusedxml (forbid_entities)
\* raises EntitiesForbidden, a ValueError, at the entity declaration. The
\* standard parser accepts the declaration; a reference in an attribute
\* value is not well-formed, a reference in the content is an undefined
\* entity: both are ParseError.
ET_parse(parser, doc, referenced) ==
    IF parser = "defusedxml" THEN [kind |-> "raise", exc |-> "EntitiesForbidden", fill |-> <<>>]
    ELSE IF doc.fill.kind = "entity"
    THEN [kind |-> "raise", exc |-> "ParseError", fill |-> <<>>]
    ELSE IF doc.content.kind = "entity" /\ entity_replacement(referenced).kind = "undefined"
    THEN [kind |-> "raise", exc |-> "ParseError", fill |-> <<>>]
    ELSE [kind |-> "tree", exc |-> "none", fill |-> ColorsOf(doc.fill)]

\* extract_colors_from_svg_safe on the document, lines 101-156
svg_safe_outcome(parser, doc, referenced) ==
    Only({ IF tree.kind = "tree"
           THEN [kind |-> "return", exc |-> "none",
                 value |-> extract_colors_from_svg_safe_matches(
                               tree.fill, svg_content_matches(doc), MAX_COLORS)]
           ELSE IF tree.exc = "ParseError"
           THEN [kind |-> "raise", exc |-> "ValidationError", value |-> <<>>]
           ELSE [kind |-> "return", exc |-> "none",
                 value |-> extract_hex_colors_from_svg_matches(svg_content_matches(doc))]
           : tree \in {ET_parse(parser, doc, referenced)} })

InitXxe ==
    /\ xxe \in [pc : {"call"}, parser : Parsers, doc : XxeDocuments,
                referenced : ReferencedFiles, tree : {<<>>},
                outcome : {[kind |-> "none", exc |-> "none", value |-> <<>>]}]
    /\ harmony = NotCalled /\ roundtrip = NotCalled /\ shares = NotCalled
    /\ analysis = NotCalled /\ cache = NotCalled /\ pfile = NotCalled
    /\ brighten = NotCalled /\ svgkeys = NotCalled
    /\ EarlierIdle

\* lines 103-110 and the two except clauses
XxeParse ==
    /\ xxe.pc = "call"
    /\ \E tree \in {ET_parse(xxe.parser, xxe.doc, xxe.referenced)} :
          IF tree.kind = "tree"
          THEN xxe' = [xxe EXCEPT !.pc = "count", !.tree = tree.fill]
          ELSE IF tree.exc = "ParseError"
          THEN xxe' = [xxe EXCEPT !.pc = "done",
                    !.outcome = [kind |-> "raise", exc |-> "ValidationError", value |-> <<>>]]
          ELSE xxe' = [xxe EXCEPT !.pc = "fallback"]
    /\ UNCHANGED <<harmony, roundtrip, shares, analysis, cache, pfile, brighten, svgkeys,
                   earlierVars>>

\* lines 112-145
XxeCount ==
    /\ xxe.pc = "count"
    /\ xxe' = [xxe EXCEPT !.pc = "done",
            !.outcome = [kind |-> "return", exc |-> "none",
                         value |-> extract_colors_from_svg_safe_matches(
                                       xxe.tree, svg_content_matches(xxe.doc), MAX_COLORS)]]
    /\ UNCHANGED <<harmony, roundtrip, shares, analysis, cache, pfile, brighten, svgkeys,
                   earlierVars>>

\* lines 152-156
XxeFallback ==
    /\ xxe.pc = "fallback"
    /\ xxe' = [xxe EXCEPT !.pc = "done",
            !.outcome = [kind |-> "return", exc |-> "none",
                         value |-> extract_hex_colors_from_svg_matches(
                                       svg_content_matches(xxe.doc))]]
    /\ UNCHANGED <<harmony, roundtrip, shares, analysis, cache, pfile, brighten, svgkeys,
                   earlierVars>>

NextXxe == XxeParse \/ XxeCount \/ XxeFallback

SpecXxe == InitXxe /\ [][NextXxe]_vars

\* the colours of a map
MapKeys(map) == { map[k][1] : k \in DOMAIN map }

----------------------------------------------------------------------------
(* cli.py: process_file with an output path of its own *)

\* an output path: validate_safe_path rejects one with a traversal part, and
\* the suffix decides whether the PDF is generated
OutputPaths ==
    { [traversal |-> FALSE, suffix |-> ".pdf"], [traversal |-> FALSE, suffix |-> ".json"],
      [traversal |-> TRUE, suffix |-> ".pdf"] }

\* process_file(input_path, output_path, quiet), lines 44-113; pdf_ok says
\* whether generate_color_pdf succeeds
process_file_output(f, out, q, at, pdf_ok) ==
    IF ~validate_safe_path(f) \/ ~validate_safe_path(out)
    THEN Raise("ValidationError", <<>>, <<>>, FALSE)
    ELSE Only({ IF ex.kind = "raise" THEN ex
                ELSE IF total_colors(ex) = 0 /\ ~q
                     THEN Raise("ValidationError", ex.steps, ex.caught, ex.alarm)
                ELSE IF out.suffix = ".pdf" /\ ~pdf_ok
                     THEN Raise("PDFGenerationError", ex.steps, ex.caught, ex.alarm)
                ELSE ex
                : ex \in {extract_colors(f, at)} })

\* what the caller sees of a call: the exception, or the record's count
Visible(did) == [kind |-> did.kind, exc |-> did.exc, total_colors |-> did.total]

InitProcess ==
    /\ pfile \in [pc : {"call"}, input_path : FileKinds, output_path : OutputPaths,
                  quiet : BOOLEAN, alarm_at : {"never", "parse"}, pdf_ok : BOOLEAN,
                  outcome : {[kind |-> "none", exc |-> "none", total_colors |-> 0]}]
    /\ harmony = NotCalled /\ roundtrip = NotCalled /\ shares = NotCalled
    /\ analysis = NotCalled /\ cache = NotCalled /\ xxe = NotCalled
    /\ brighten = NotCalled /\ svgkeys = NotCalled
    /\ EarlierIdle

ProcessFile ==
    /\ pfile.pc = "call"
    /\ \E did \in {process_file_output(pfile.input_path, pfile.output_path, pfile.quiet,
                                       pfile.alarm_at, pfile.pdf_ok)} :
          pfile' = [pfile EXCEPT !.pc = "done", !.outcome = Visible(did)]
    /\ UNCHANGED <<harmony, roundtrip, shares, analysis, cache, xxe, brighten, svgkeys,
                   earlierVars>>

NextProcess == ProcessFile

SpecProcess == InitProcess /\ [][NextProcess]_vars

\* C27: for the same input file and output path (and the same behaviour of
\* the file system, the alarm and the PDF writer), process_file with quiet
\* true and with quiet false raise the same error or return the same record.
C27_QuietSameOutcome ==
    pfile.pc = "done" =>
        pfile.outcome =
            Visible(process_file_output(pfile.input_path, pfile.output_path, ~pfile.quiet,
                                        pfile.alarm_at, pfile.pdf_ok))

----------------------------------------------------------------------------
(* generators/palette.py: _adjust_brightness, one call *)

\* amounts inside the documented range -100..100 and beyond it; with these
\* no channel of a result falls on a half, where the floating-point
\* computation and not the rounding rule decides the direction
Amounts == {-150, -100, -60, -30, -12, -1, 0, 1, 12, 30, 60, 100, 150}

InitBrighten ==
    /\ brighten \in [pc : {"call"}, hex_color : HarmonyColors, amount : Amounts,
                     result : {<<>>}]
    /\ harmony = NotCalled /\ roundtrip = NotCalled /\ shares = NotCalled
    /\ analysis = NotCalled /\ cache = NotCalled /\ xxe = NotCalled
    /\ pfile = NotCalled /\ svgkeys = NotCalled
    /\ EarlierIdle

Brighten ==
    /\ brighten.pc = "call"
    /\ \E result \in {_adjust_brightness(brighten.hex_color, brighten.amount)} :
          brighten' = [brighten EXCEPT !.pc = "done", !.result = result]
    /\ UNCHANGED <<harmony, roundtrip, shares, analysis, cache, xxe, pfile, svgkeys,
                   earlierVars>>

NextBrighten == Brighten

SpecBrighten == InitBrighten /\ [][NextBrighten]_vars

\* the HSL triple of a colour, in tenths
HslOf(hex_color) == rgb_to_hsl(hex_to_rgb(hex_color))

\* min(100, max(0, l + amount)), in tenths
StatedLightness(l, amount) == Min2(1000, Max2(0, l + 10 * amount))

\* C28: the result is the colour whose HSL triple has the hue and the
\* saturation of c and the lightness min(100, max(0, l + amount)); measured
\* on the result, the lightness is that value to within the 8-bit rounding
\* (0.2 points); a lightness that reaches 100 gives white and one that
\* reaches 0 gives black, so white stays white for every positive amount and
\* black stays black for every negative amount; amount 0 gives c itself.
C28_OnlyLightnessClamped ==
    brighten.pc = "done" =>
        LET hsl == HslOf(brighten.hex_color)
            l == StatedLightness(hsl[3], brighten.amount)
        IN /\ brighten.result = FormatHex(hsl_to_rgb(hsl[1], hsl[2], l))
           /\ HslOf(brighten.result)[3] - l \in -2..2
           /\ l = 1000 => brighten.result = WHITE
           /\ l = 0 => brighten.result = BLACK
           /\ hex_to_rgb(brighten.hex_color) = <<255, 255, 255>> /\ brighten.amount > 0
                 => brighten.result = WHITE
           /\ hex_to_rgb(brighten.hex_color) = <<0, 0, 0>> /\ brighten.amount < 0
                 => brighten.result = BLACK
           /\ brighten.amount = 0 =>
                 hex_to_rgb(brighten.result) = hex_to_rgb(brighten.hex_color)

\* a delta beyond the boundary: red, lightness 50, made lighter by 60 points
C28_Witness ==
    /\ brighten.pc = "done"
    /\ brighten.hex_color = RED
    /\ brighten.amount = 60
    /\ brighten.result = WHITE

----------------------------------------------------------------------------
(* _find_accessible_text with the default target *)

\* C29: for target rating "AA" the search ends in its first step, with
\* black or white: the loop over the brightness adjustments and the final
\* fallback are never reached, at most the two fixed candidates are tried,
\* and the text returned has a contrast of at least 3:1.
C29_AATextIsBlackOrWhite ==
    (target_rating = "AA" /\ tpc # "idle") =>
        /\ tpc \in {"fixed", "done"}
        /\ Len(tried) <= 2
        /\ \A k \in DOMAIN tried : tried[k].color \in {BLACK, WHITE}
        /\ tpc = "done" =>
              /\ found.color \in {BLACK, WHITE}
              /\ found.ratio >= 3000
              /\ found.ratio = get_contrast_ratio(found.color, background)
              /\ found.rating \in {"AA", "AAA", "AA Large"}

\* black is rejected on a dark background and white is accepted
C29_Witness ==
    /\ target_rating = "AA"
    /\ tpc = "done"
    /\ Len(tried) = 2
    /\ found.color = WHITE
    /\ background = <<HASH, 1, 10, 1, 10, 1, 10>>

----------------------------------------------------------------------------
(* HEX_COLOR_PATTERN = #[0-9a-fA-F]{3,6}\b and the keys of the maps *)

MaxTextLen == 8

\* \w of the regular expression: letters, digits and the underscore
IsWordChar(c) == c \in HexDigits \/ c = LETTER_G

\* \b after position j of text: a word character on exactly one side
WordBoundaryAfter(text, j) ==
    LET before == j >= 1 /\ IsWordChar(text[j])
        after == j < Len(text) /\ IsWordChar(text[j + 1])
    IN before # after

\* the pattern matches at position i with m digits
MatchesAt(text, i, m) ==
    /\ i + m <= Len(text)
    /\ text[i] = HASH
    /\ \A k \in (i + 1)..(i + m) : text[k] \in HexDigits
    /\ WordBoundaryAfter(text, i + m)

\* the length of the match at i: {3,6} is greedy, the longest count that
\* lets \b match; 0 when there is no match at i
MatchLength(text, i) ==
    IF \E m \in 3..6 : MatchesAt(text, i, m)
    THEN CHOOSE m \in 3..6 :
            /\ MatchesAt(text, i, m)
            /\ \A n \in (m + 1)..6 : ~MatchesAt(text, i, n)
    ELSE 0

RECURSIVE findall_from(_, _)
findall_from(text, i) ==
    IF i > Len(text) THEN <<>>
    ELSE Only({ IF m = 0 THEN findall_from(text, i + 1)
                ELSE <<SubSeq(text, i, i + m)>> \o findall_from(text, i + m + 1)
                : m \in {MatchLength(text, i)} })

\* HEX_COLOR_PATTERN.findall(text)
findall(text) == findall_from(text, 1)

\* the loop of categorize_colors converts every key, lines 109-110
categorize_colors_raises(map) ==
    \E k \in DOMAIN map : hex_to_rgb(map[k][1]) = ValueError

\* the text that is scanned: the value of a colour attribute, or the content
SvgAlphabet == {HASH, 10, LETTER_G}
SvgTexts == UNION { [1..n -> SvgAlphabet] : n \in 0..MaxTextLen }

InitSvgKeys ==
    /\ svgkeys \in [pc : {"call"}, text : SvgTexts, path : {"none"}, result : {<<>>}]
    /\ harmony = NotCalled /\ roundtrip = NotCalled /\ shares = NotCalled
    /\ analysis = NotCalled /\ cache = NotCalled /\ xxe = NotCalled
    /\ pfile = NotCalled /\ brighten = NotCalled
    /\ EarlierIdle

\* extract_hex_colors_from_svg(text)
KeysByRegex ==
    /\ svgkeys.pc = "call"
    /\ \E colors \in {findall(svgkeys.text)} :
          svgkeys' = [svgkeys EXCEPT !.pc = "extracted", !.path = "regex",
                        !.result = extract_hex_colors_from_svg_matches(colors)]
    /\ UNCHANGED <<harmony, roundtrip, shares, analysis, cache, xxe, pfile, brighten,
                   earlierVars>>

\* extract_colors_from_svg_safe of <svg fill="text"/>
KeysByXml ==
    /\ svgkeys.pc = "call"
    /\ \E colors \in {findall(svgkeys.text)} :
          svgkeys' = [svgkeys EXCEPT !.pc = "extracted", !.path = "xml",
                        !.result = extract_colors_from_svg_safe_matches(colors, colors,
                                                                        MAX_COLORS)]
    /\ UNCHANGED <<harmony, roundtrip, shares, analysis, cache, xxe, pfile, brighten,
                   earlierVars>>

\* categorize_colors(hex_colors_with_freq), cli.py line 77
KeysCategorize ==
    /\ svgkeys.pc = "extracted"
    /\ svgkeys' = [svgkeys EXCEPT
            !.pc = IF categorize_colors_raises(svgkeys.result) THEN "raised" ELSE "done"]
    /\ UNCHANGED <<harmony, roundtrip, shares, analysis, cache, xxe, pfile, brighten,
                   earlierVars>>

NextSvgKeys == KeysByRegex \/ KeysByXml \/ KeysCategorize

SpecSvgKeys == InitSvgKeys /\ [][NextSvgKeys]_vars

\* '#' followed by exactly 3 or exactly 6 hexadecimal digits
IsHexColour(key) ==
    /\ Len(key) \in {4, 7}
    /\ key[1] = HASH
    /\ \A k \in 2..Len(key) : key[k] \in HexDigits

\* C30: every key of the map that the SVG extraction returns, by attribute
\* counting or by the regex scan, is '#' followed by exactly 3 or exactly 6
\* hexadecimal digits, hex_to_rgb converts it without error, and
\* categorize_colors of the map does not raise.
C30_KeysConvert ==
    svgkeys.pc \in {"extracted", "done", "raised"} =>
        /\ \A k \in DOMAIN svgkeys.result :
              /\ IsHexColour(svgkeys.result[k][1])
              /\ hex_to_rgb(svgkeys.result[k][1]) # ValueError
        /\ svgkeys.pc # "raised"

====
